---- MODULE Spec2Model ----
(***************************************************************************)
(* Transactional ledger of project-justice (database.js, index.js).        *)
(*                                                                         *)
(* The PostgreSQL store is modelled at READ COMMITTED: `db` holds the      *)
(* committed rows, a transaction (client.query between BEGIN and COMMIT)   *)
(* buffers its writes in procs[p].writes and reads db overlaid with them,  *)
(* SELECT ... FOR UPDATE and INSERT ... ON CONFLICT DO UPDATE take the row *)
(* lock in `locks` and wait while another transaction holds it, and a      *)
(* pool.query statement is its own transaction: a read of db, or a write   *)
(* that waits for the row lock and is committed at once.                   *)
(* Every `await` of a handler is one step of its process.                  *)
(* Money (NUMERIC(20,2)) is an integer number of units.                    *)
(***************************************************************************)
EXTENDS Integers, Sequences, FiniteSets, TLC

\* ---------------------------------------------------------------- bounds
NumUsers == 2
NumSubs == 2
NumTasks == 2
NumProcs == 2

Users == 1..NumUsers
SubIds == 1..NumSubs
TaskIds == 1..NumTasks
Procs == 1..NumProcs

NoUser == 0
NoSub == 0
NoProc == 0
AdminId == 99

VARIABLES
  db,      \* the committed tables
  locks,   \* row -> the process whose transaction holds the row lock
  procs,   \* process -> the handler call it runs, its position and locals
  now,     \* Date.now(), in units of twelve hours
  pendingTasks, \* the bot's in-memory map: user -> the submission being prepared
  hist     \* history of the run (not program state): account -> the net amount
           \* the completed single-account ledger operations credited to it

vars == <<db, locks, procs, now, pendingTasks, hist>>

\* ---------------------------------------------------------------- rows
SettingKeys == {"tasksApproved", "tasksRejected", "tasksSubmitted", "referralReward",
                "bonusAmount",
                "withdrawalOpen", "minWithdrawal", "maxWithdrawal"}

LockRows == {<<"sub", s>> : s \in SubIds} \cup {<<"user", u>> : u \in Users}
            \cup {<<"setting", k>> : k \in SettingKeys}

\* A DATE column: NULL, or a day counted from the epoch.
NullDate == [isNull |-> TRUE, day |-> 0]

DateOf(d) == [isNull |-> FALSE, day |-> d]

\* activity_score is a quotient of a message count and a number of hours; kept as
\* the pair. The column default is 0.
ScoreOf(n, d) == [num |-> n, den |-> d]

NoUserRow == [present |-> FALSE, balance |-> 0, verified |-> FALSE,
              referred_by |-> NoUser, wallet |-> FALSE, last_bonus_claim |-> 0,
              username |-> "", registered_at |-> 0, last_seen |-> 0,
              message_count |-> 0, group_message_count |-> 0, bot_message_count |-> 0,
              current_streak |-> 0, longest_streak |-> 0,
              last_activity_date |-> NullDate, activity_score |-> ScoreOf(0, 1),
              engagement_tier |-> "Regular", tier_updated_at |-> 0,
              spam_score |-> 0, last_spam_check |-> 0,
              is_throttled |-> FALSE, throttled_until |-> 0,
              last_decay_applied |-> 0]

NoSubRow == [present |-> FALSE, id |-> NoSub, user_id |-> NoUser, task_id |-> 0,
             task_reward |-> 0, status |-> "none", reviewed_by |-> 0,
             reviewed_at |-> 0]

NoTaskRow == [present |-> FALSE, reward |-> 0]

\* pendingTasks[userId] is undefined
NoPending == [present |-> FALSE, taskId |-> 0, taskReward |-> 0, hasFiles |-> FALSE]

\* A bot_settings value is a string in the code; the settings modelled hold
\* decimal numerals (and 'true'/'false' as 1/0). isNull: no row for the key.
NullSetting == [isNull |-> TRUE, value |-> 0]

SettingOf(n) == [isNull |-> FALSE, value |-> n]

UserRow(d, u) == IF u \in Users THEN d.users[u] ELSE NoUserRow

SubRow(d, s) == IF s \in SubIds THEN d.task_submissions[s] ELSE NoSubRow

TaskRow(d, t) == IF t \in TaskIds THEN d.tasks[t] ELSE NoTaskRow

\* ---------------------------------------------------------------- writes
\* One buffered statement of a transaction.
Write(tbl, key, val) == [tbl |-> tbl, key |-> key, val |-> val]

Apply(d, w) ==
  CASE w.tbl = "sub_status" ->
         [d EXCEPT !.task_submissions[w.key].status = w.val.status,
                   !.task_submissions[w.key].reviewed_by = w.val.reviewed_by,
                   !.task_submissions[w.key].reviewed_at = w.val.reviewed_at]
    [] w.tbl = "balance" -> [d EXCEPT !.users[w.key].balance = w.val]
    [] w.tbl = "verified" -> [d EXCEPT !.users[w.key].verified = w.val]
    [] w.tbl = "completed" ->
         IF \E c \in d.completed_tasks : c.user_id = w.key[1] /\ c.task_id = w.key[2]
         THEN d
         ELSE [d EXCEPT !.completed_tasks = @ \cup
                 {[user_id |-> w.key[1], task_id |-> w.key[2], reward |-> w.val]}]
    [] w.tbl = "referral" -> [d EXCEPT !.referrals = @ \cup {w.key}]
    [] w.tbl = "setting" -> [d EXCEPT !.bot_settings[w.key] = SettingOf(w.val)]

RECURSIVE ApplyAll(_, _)
ApplyAll(d, ws) == IF ws = <<>> THEN d ELSE ApplyAll(Apply(d, Head(ws)), Tail(ws))

\* What the statements of p's transaction read: the committed rows with p's own
\* writes on top.
TxView(p) == ApplyAll(db, procs[p].writes)

LockFree(row, p) == locks[row] \in {NoProc, p}

Release(p) == [r \in LockRows |-> IF locks[r] = p THEN NoProc ELSE locks[r]]

RECURSIVE SumReward(_, _)
SumReward(d, S) ==
  IF S = {} THEN 0
  ELSE LET s == CHOOSE x \in S : TRUE
       IN d.task_submissions[s].task_reward + SumReward(d, S \ {s})

\* ---------------------------------------------------------------- settings
\* getSetting: pool.query, so a read of the committed row whatever transaction
\* the caller is in; `value || null`.
getSetting(key) == db.bot_settings[key]

\* parseInt(x) || 0
ParseIntOr0(x) == IF x.isNull THEN 0 ELSE x.value

\* ---------------------------------------------------------------- processes
\* What the scoring functions return, as one record: analyzeReferralPattern gives
\* realRefs, suspiciousRefs, score (the number of stars) and percentage (in tenths of
\* a percent, as toFixed(1) prints it); updateEngagementTier gives tier and
\* tierScore; detectBotOrFakeUser gives isBot, isFake, botScore, fakeScore,
\* confidence; checkSpamBehavior gives isSpamming.
NoReturn == [realRefs |-> 0, suspiciousRefs |-> 0, score |-> 0, percentage |-> 0,
             tier |-> "", tierScore |-> 0,
             isBot |-> FALSE, isFake |-> FALSE, botScore |-> 0, fakeScore |-> 0,
             confidence |-> 0, isSpamming |-> FALSE]

IdleProc == [op |-> "none", pc |-> "idle", arg |-> 0, amt |-> 0,
             sub |-> NoSubRow, usr |-> NoUserRow, ref |-> NoUserRow,
             val |-> NullSetting, lo |-> NullSetting, hi |-> NullSetting,
             pending |-> NoPending, by |-> 0,
             writes |-> <<>>, rows |-> <<>>, todo |-> {}, idx |-> 1, count |-> 0,
             res |-> "none", at |-> "none", flags |-> {},
             username |-> "", startParam |-> 0, updateActivity |-> FALSE,
             chatType |-> "private", updates |-> <<>>,
             referrals |-> <<>>, realCount |-> 0, suspiciousCount |-> 0, score |-> 0,
             totalActivities |-> 0, kinds |-> 0, ret |-> NoReturn, started |-> 0,
             notified |-> 0]

InTx(p) == procs[p].pc \in {"lock_sub", "lock_user", "upd_sub", "credit", "completed",
                            "get_setting", "upsert", "commit",
                            "b_scan", "b_lock_rows", "b_next_row", "b_upd_sub", "b_credit",
                            "b_completed", "b_get_setting", "b_upsert", "b_commit",
                            "v_lock_referee", "v_commit_already", "v_mark",
                            "v_lock_referrer", "v_get_setting", "v_credit", "v_referral",
                            "v_commit",
                            "r_lock_sub", "r_upd_sub", "r_get_setting", "r_upsert", "r_commit",
                            "br_scan", "br_lock_rows", "br_next_row", "br_get_setting",
                            "br_upsert", "br_commit"}

\* Mutant of Rollback: the catch block issues COMMIT instead of ROLLBACK.
RollbackCommits(p, r) ==
  /\ db' = ApplyAll(db, procs[p].writes)
  /\ procs' = [procs EXCEPT ![p].pc = "done", ![p].res = r, ![p].at = procs[p].pc,
                            ![p].writes = <<>>]
  /\ locks' = Release(p)
  /\ UNCHANGED <<now, pendingTasks, hist>>

\* catch (err) { ROLLBACK; throw err } finally { release }: the buffered writes are
\* dropped, the row locks released, the caller gets the error r.
Rollback(p, r) ==
  /\ procs' = [procs EXCEPT ![p].pc = "done", ![p].res = r, ![p].at = procs[p].pc,
                            ![p].writes = <<>>]
  /\ locks' = Release(p)
  /\ UNCHANGED <<db, now, pendingTasks, hist>>

\* COMMIT: the buffered writes become the committed rows, the locks are released.
Commit(p, r) ==
  /\ db' = ApplyAll(db, procs[p].writes)
  /\ procs' = [procs EXCEPT ![p].pc = "done", ![p].res = r, ![p].writes = <<>>]
  /\ locks' = Release(p)
  /\ UNCHANGED <<now, pendingTasks, pendingTasks>>

\* A statement of the transaction fails (constraint violation, lost connection,
\* forced failure): control goes to the catch block.
TxFault(p) ==
  /\ InTx(p)
  /\ Rollback(p, "Faulted")

\* ---------------------------------------------------------------- approveSubmissionAtomic
CallApprove(p, s) ==
  /\ procs[p].pc = "idle"
  /\ procs' = [procs EXCEPT ![p].op = "approve", ![p].pc = "lock_sub", ![p].arg = s]
  /\ UNCHANGED <<db, locks, now, pendingTasks, hist>>

\* Mutant of ApproveLockSub: the submission is read without FOR UPDATE.
ApproveLockSubNoLock(p) ==
  /\ procs[p].op = "approve" /\ procs[p].pc = "lock_sub"
  /\ LET s == procs[p].arg
         submission == SubRow(db, s)
     IN IF ~submission.present THEN Rollback(p, "NotFound")
        ELSE IF submission.status # "pending" THEN Rollback(p, "InvalidState")
        ELSE /\ procs' = [procs EXCEPT ![p].sub = submission, ![p].pc = "lock_user"]
             /\ UNCHANGED <<db, locks, now, pendingTasks, hist>>

\* SELECT * FROM task_submissions WHERE id = $1 FOR UPDATE, and the two checks.
ApproveLockSub(p) ==
  /\ procs[p].op = "approve" /\ procs[p].pc = "lock_sub"
  /\ LET s == procs[p].arg
         submission == SubRow(db, s)
     IN IF ~submission.present THEN Rollback(p, "NotFound")
        ELSE /\ LockFree(<<"sub", s>>, p)
             /\ IF submission.status # "pending" THEN Rollback(p, "InvalidState")
                ELSE /\ locks' = [locks EXCEPT ![<<"sub", s>>] = p]
                     /\ procs' = [procs EXCEPT ![p].sub = submission, ![p].pc = "lock_user"]
                     /\ UNCHANGED <<db, now, pendingTasks, hist>>

\* Mutant of ApproveLockUser: the account is read without FOR UPDATE.
ApproveLockUserNoLock(p) ==
  /\ procs[p].op = "approve" /\ procs[p].pc = "lock_user"
  /\ LET u == procs[p].sub.user_id
         user == UserRow(TxView(p), u)
     IN IF ~user.present THEN Rollback(p, "NotFound")
        ELSE /\ procs' = [procs EXCEPT ![p].usr = user, ![p].pc = "upd_sub"]
             /\ UNCHANGED <<db, locks, now, pendingTasks, hist>>

\* SELECT * FROM users WHERE id = $1 FOR UPDATE
ApproveLockUser(p) ==
  /\ procs[p].op = "approve" /\ procs[p].pc = "lock_user"
  /\ LET u == procs[p].sub.user_id
         user == UserRow(TxView(p), u)
     IN IF ~user.present THEN Rollback(p, "NotFound")
        ELSE /\ LockFree(<<"user", u>>, p)
             /\ locks' = [locks EXCEPT ![<<"user", u>>] = p]
             /\ procs' = [procs EXCEPT ![p].usr = user, ![p].pc = "upd_sub"]
             /\ UNCHANGED <<db, now, pendingTasks, hist>>

\* UPDATE task_submissions SET status = 'approved', reviewed_by = $2 WHERE id = $3
ApproveUpdateSub(p) ==
  /\ procs[p].op = "approve" /\ procs[p].pc = "upd_sub"
  /\ procs' = [procs EXCEPT
       ![p].writes = Append(@, Write("sub_status", procs[p].arg,
                                     [status |-> "approved", reviewed_by |-> AdminId,
                                      reviewed_at |-> now])),
       ![p].pc = "credit"]
  /\ UNCHANGED <<db, locks, now, pendingTasks, hist>>

\* newBalance = (parseFloat(user.balance) || 0) + parseFloat(submission.task_reward || 0)
ApproveCredit(p) ==
  /\ procs[p].op = "approve" /\ procs[p].pc = "credit"
  /\ LET newBalance == procs[p].usr.balance + procs[p].sub.task_reward
     IN procs' = [procs EXCEPT
          ![p].writes = Append(@, Write("balance", procs[p].sub.user_id, newBalance)),
          ![p].amt = newBalance,
          ![p].pc = "completed"]
  /\ UNCHANGED <<db, locks, now, pendingTasks, hist>>

\* INSERT INTO completed_tasks ... ON CONFLICT (user_id, task_id) DO NOTHING
ApproveInsertCompleted(p) ==
  /\ procs[p].op = "approve" /\ procs[p].pc = "completed"
  /\ procs' = [procs EXCEPT
       ![p].writes = Append(@, Write("completed",
                                     <<procs[p].sub.user_id, procs[p].sub.task_id>>,
                                     procs[p].sub.task_reward)),
       ![p].pc = "get_setting"]
  /\ UNCHANGED <<db, locks, now, pendingTasks, hist>>

\* const tasksApproved = await getSetting('tasksApproved')
ApproveGetSetting(p) ==
  /\ procs[p].op = "approve" /\ procs[p].pc = "get_setting"
  /\ procs' = [procs EXCEPT ![p].val = getSetting("tasksApproved"), ![p].pc = "upsert"]
  /\ UNCHANGED <<db, locks, now, pendingTasks, hist>>

\* INSERT INTO bot_settings ... ON CONFLICT (key) DO UPDATE SET value = $1:
\* waits for the row while another transaction has written it.
ApproveUpsertCounter(p) ==
  /\ procs[p].op = "approve" /\ procs[p].pc = "upsert"
  /\ LockFree(<<"setting", "tasksApproved">>, p)
  /\ locks' = [locks EXCEPT ![<<"setting", "tasksApproved">>] = p]
  /\ procs' = [procs EXCEPT
       ![p].writes = Append(@, Write("setting", "tasksApproved",
                                     ParseIntOr0(procs[p].val) + 1)),
       ![p].pc = "commit"]
  /\ UNCHANGED <<db, now, pendingTasks, hist>>

ApproveCommit(p) ==
  /\ procs[p].op = "approve" /\ procs[p].pc = "commit"
  /\ Commit(p, "ok")
  /\ hist' = [hist EXCEPT ![procs[p].sub.user_id] = @ + procs[p].sub.task_reward]

\* ---------------------------------------------------------------- initial states
InitSettings ==
  [k \in SettingKeys |->
     CASE k = "tasksApproved" -> SettingOf(0)
       [] k = "tasksRejected" -> SettingOf(0)
       [] k = "tasksSubmitted" -> SettingOf(0)
       [] k = "referralReward" -> SettingOf(20)
       [] k = "bonusAmount" -> SettingOf(3)
       [] k = "withdrawalOpen" -> SettingOf(0)
       [] k = "minWithdrawal" -> SettingOf(50)
       [] k = "maxWithdrawal" -> SettingOf(10000)]

\* The reward /addtask gave task t.
TaskReward(t) == 5 * t

NewUser == [NoUserRow EXCEPT !.present = TRUE]

InitCommon ==
  /\ locks = [r \in LockRows |-> NoProc]
  /\ procs = [p \in Procs |-> IdleProc]
  /\ now = 2
  /\ pendingTasks = [u \in Users |-> NoPending]
  /\ hist = [u \in Users |-> 0]

\* Registered users with no balance, tasks created, and every submission pending.
InitApprove ==
  /\ InitCommon
  /\ \E owner \in [SubIds -> Users], task \in [SubIds -> TaskIds] :
       db = [users |-> [u \in Users |-> NewUser],
             tasks |-> [t \in TaskIds |-> [present |-> TRUE, reward |-> TaskReward(t)]],
             task_submissions |-> [s \in SubIds |->
                [present |-> TRUE, id |-> s, user_id |-> owner[s], task_id |-> task[s],
                 task_reward |-> TaskReward(task[s]), status |-> "pending",
                 reviewed_by |-> 0, reviewed_at |-> 0]],
             completed_tasks |-> {},
             referrals |-> {},
             bot_settings |-> InitSettings,
             withdrawal_requests |-> <<>>,
             user_activity_log |-> {}]

NextApprove ==
  \E p \in Procs :
    \/ \E s \in SubIds \cup {NoSub} : CallApprove(p, s)
    \/ ApproveLockSub(p)
    \/ ApproveLockUser(p)
    \/ ApproveUpdateSub(p)
    \/ ApproveCredit(p)
    \/ ApproveInsertCompleted(p)
    \/ ApproveGetSetting(p)
    \/ ApproveUpsertCounter(p)
    \/ ApproveCommit(p)
    \/ TxFault(p)

SpecApprove == InitApprove /\ [][NextApprove]_vars

\* ---------------------------------------------------------------- claims on SpecApprove
CallsOn(s) == {p \in Procs : procs[p].op = "approve" /\ procs[p].arg = s}

OkCalls(s) == {p \in CallsOn(s) : procs[p].res = "ok"}

OkSubsOf(u) == {s \in SubIds : db.task_submissions[s].user_id = u /\ OkCalls(s) # {}}

ApprovedSubsOf(u) ==
  {s \in SubIds : db.task_submissions[s].user_id = u
                  /\ db.task_submissions[s].status = "approved"}

Quiescent == \A p \in Procs : procs[p].pc \in {"idle", "done"}

\* C1: of the approveSubmissionAtomic calls on one pending submission at most one
\* succeeds, and once they have all returned without a forced failure exactly one
\* has succeeded and every other one got 'Submission not pending'; the owner's
\* balance holds the reward of a submission once per submission with a successful
\* call, whatever the number of calls on it.
C1_ApproveExactlyOnce ==
  /\ \A s \in SubIds :
       /\ Cardinality(OkCalls(s)) <= 1
       /\ ( /\ CallsOn(s) # {}
            /\ \A p \in CallsOn(s) : procs[p].pc = "done" /\ procs[p].res # "Faulted" )
          => /\ Cardinality(OkCalls(s)) = 1
             /\ \A p \in CallsOn(s) \ OkCalls(s) : procs[p].res = "InvalidState"
  /\ \A u \in Users : db.users[u].balance = SumReward(db, OkSubsOf(u))

\* Two calls on the same submission have both returned: one succeeded, one was refused.
C1_Witness ==
  \E p, q \in Procs :
    /\ p # q /\ procs[p].op = "approve" /\ procs[q].op = "approve"
    /\ procs[p].arg = procs[q].arg
    /\ procs[p].pc = "done" /\ procs[p].res = "ok"
    /\ procs[q].pc = "done" /\ procs[q].res = "InvalidState"
    /\ db.users[procs[p].sub.user_id].balance = procs[p].sub.task_reward

\* C2: a call that failed after BEGIN leaves nothing behind: a submission with no
\* successful call is still pending, the completed-task records are exactly those
\* of the submissions with a successful call, every balance is the sum of the
\* rewards of those submissions, and tasksApproved is 0 while no call succeeded.
C2_FailedApproveLeavesNothing ==
  /\ \A s \in SubIds : OkCalls(s) = {} => db.task_submissions[s].status = "pending"
  /\ \A s \in SubIds :
       OkCalls(s) # {} =>
         \E c \in db.completed_tasks : /\ c.user_id = db.task_submissions[s].user_id
                                       /\ c.task_id = db.task_submissions[s].task_id
  /\ \A c \in db.completed_tasks :
       \E s \in SubIds : /\ OkCalls(s) # {}
                         /\ db.task_submissions[s].user_id = c.user_id
                         /\ db.task_submissions[s].task_id = c.task_id
  /\ \A u \in Users : OkSubsOf(u) = {} => db.users[u].balance = 0
  /\ (\A s \in SubIds : OkCalls(s) = {}) => db.bot_settings["tasksApproved"].value = 0

\* A call failed at its counter write or its COMMIT, after the status change, the
\* credit and the completed-task insert were made, and nothing of it is committed.
C2_Witness ==
  \E p \in Procs :
    /\ procs[p].res = "Faulted" /\ procs[p].at \in {"upsert", "commit"}
    /\ OkCalls(procs[p].arg) = {}
    /\ db.task_submissions[procs[p].arg].status = "pending"
    /\ db.users[procs[p].sub.user_id].balance = 0
    /\ db.completed_tasks = {}

\* C3: every balance is the initial balance (0) plus the snapshotted rewards of the
\* owner's approved submissions, in every interleaving of the calls.
C3_Conservation ==
  \A u \in Users : db.users[u].balance = SumReward(db, ApprovedSubsOf(u))

\* Two calls on two submissions of one account have both committed.
C3_Witness ==
  \E p, q \in Procs :
    /\ procs[p].res = "ok" /\ procs[q].res = "ok"
    /\ procs[p].arg # procs[q].arg
    /\ procs[p].sub.user_id = procs[q].sub.user_id
    /\ db.users[procs[p].sub.user_id].balance
         = procs[p].sub.task_reward + procs[q].sub.task_reward

\* C10: once every call has returned, tasksApproved is its initial value (0) plus
\* the number of calls that succeeded.
C10_CounterCountsApprovals ==
  Quiescent =>
    ParseIntOr0(db.bot_settings["tasksApproved"])
      = Cardinality({p \in Procs : procs[p].op = "approve" /\ procs[p].res = "ok"})

\* ---------------------------------------------------------------- approveAllPendingSubmissions
Min(S) == CHOOSE x \in S : \A y \in S : x <= y

CallBulk(p) ==
  /\ procs[p].pc = "idle"
  /\ procs' = [procs EXCEPT ![p].op = "bulk", ![p].pc = "b_scan"]
  /\ UNCHANGED <<db, locks, now, pendingTasks, hist>>

\* SELECT * FROM task_submissions WHERE status = 'pending' FOR UPDATE: the statement
\* starts with the rows that are pending in its snapshot ...
BulkScan(p) ==
  /\ procs[p].op = "bulk" /\ procs[p].pc = "b_scan"
  /\ procs' = [procs EXCEPT
       ![p].todo = {s \in SubIds : db.task_submissions[s].present
                                   /\ db.task_submissions[s].status = "pending"},
       ![p].pc = "b_lock_rows"]
  /\ UNCHANGED <<db, locks, now, pendingTasks, hist>>

\* ... and locks them one by one in scan order, waiting for a row another transaction
\* holds and then keeping it only if its committed version is still pending.
BulkLockRow(p) ==
  /\ procs[p].op = "bulk" /\ procs[p].pc = "b_lock_rows"
  /\ IF procs[p].todo = {}
     THEN /\ procs' = [procs EXCEPT ![p].pc = "b_next_row"]
          /\ UNCHANGED <<db, locks, now, pendingTasks, hist>>
     ELSE LET s == Min(procs[p].todo)
              submission == db.task_submissions[s]
          IN /\ LockFree(<<"sub", s>>, p)
             /\ IF submission.status = "pending"
                THEN /\ locks' = [locks EXCEPT ![<<"sub", s>>] = p]
                     /\ procs' = [procs EXCEPT ![p].todo = @ \ {s},
                                               ![p].rows = Append(@, submission)]
                ELSE /\ locks' = locks
                     /\ procs' = [procs EXCEPT ![p].todo = @ \ {s}]
             /\ UNCHANGED <<db, now, pendingTasks, hist>>

\* Mutant of BulkLockUser: the account is taken from the committed row, as if the
\* accounts had been fetched before the loop, not from the transaction's own view.
BulkLockUserStale(p) ==
  /\ procs[p].op = "bulk" /\ procs[p].pc = "b_next_row"
  /\ IF procs[p].idx > Len(procs[p].rows)
     THEN /\ procs' = [procs EXCEPT ![p].pc = "b_get_setting"]
          /\ UNCHANGED <<db, locks, now, pendingTasks, hist>>
     ELSE LET submission == procs[p].rows[procs[p].idx]
              u == submission.user_id
              user == UserRow(db, u)
          IN IF ~user.present
             THEN /\ procs' = [procs EXCEPT ![p].idx = @ + 1]
                  /\ UNCHANGED <<db, locks, now, pendingTasks, hist>>
             ELSE /\ LockFree(<<"user", u>>, p)
                  /\ locks' = [locks EXCEPT ![<<"user", u>>] = p]
                  /\ procs' = [procs EXCEPT ![p].sub = submission, ![p].usr = user,
                                            ![p].pc = "b_upd_sub"]
                  /\ UNCHANGED <<db, now, pendingTasks, hist>>

\* Mutant of BulkLockUser: a row whose owner is missing is skipped, but counted.
BulkLockUserCounts(p) ==
  /\ procs[p].op = "bulk" /\ procs[p].pc = "b_next_row"
  /\ IF procs[p].idx > Len(procs[p].rows)
     THEN /\ procs' = [procs EXCEPT ![p].pc = "b_get_setting"]
          /\ UNCHANGED <<db, locks, now, pendingTasks, hist>>
     ELSE LET submission == procs[p].rows[procs[p].idx]
              u == submission.user_id
              user == UserRow(TxView(p), u)
          IN IF ~user.present
             THEN /\ procs' = [procs EXCEPT ![p].idx = @ + 1, ![p].count = @ + 1]
                  /\ UNCHANGED <<db, locks, now, pendingTasks, hist>>
             ELSE /\ LockFree(<<"user", u>>, p)
                  /\ locks' = [locks EXCEPT ![<<"user", u>>] = p]
                  /\ procs' = [procs EXCEPT ![p].sub = submission, ![p].usr = user,
                                            ![p].pc = "b_upd_sub"]
                  /\ UNCHANGED <<db, now, pendingTasks, hist>>

\* for (const submission of rows): SELECT * FROM users WHERE id = $1 FOR UPDATE;
\* if (!user) continue. After the last row the loop ends.
BulkLockUser(p) ==
  /\ procs[p].op = "bulk" /\ procs[p].pc = "b_next_row"
  /\ IF procs[p].idx > Len(procs[p].rows)
     THEN /\ procs' = [procs EXCEPT ![p].pc = "b_get_setting"]
          /\ UNCHANGED <<db, locks, now, pendingTasks, hist>>
     ELSE LET submission == procs[p].rows[procs[p].idx]
              u == submission.user_id
              user == UserRow(TxView(p), u)
          IN IF ~user.present
             THEN /\ procs' = [procs EXCEPT ![p].idx = @ + 1]
                  /\ UNCHANGED <<db, locks, now, pendingTasks, hist>>
             ELSE /\ LockFree(<<"user", u>>, p)
                  /\ locks' = [locks EXCEPT ![<<"user", u>>] = p]
                  /\ procs' = [procs EXCEPT ![p].sub = submission, ![p].usr = user,
                                            ![p].pc = "b_upd_sub"]
                  /\ UNCHANGED <<db, now, pendingTasks, hist>>

\* UPDATE task_submissions SET status = 'approved', ... WHERE id = submission.id
BulkUpdateSub(p) ==
  /\ procs[p].op = "bulk" /\ procs[p].pc = "b_upd_sub"
  /\ procs' = [procs EXCEPT
       ![p].writes = Append(@, Write("sub_status", procs[p].sub.id,
                                     [status |-> "approved", reviewed_by |-> AdminId,
                                      reviewed_at |-> now])),
       ![p].pc = "b_credit"]
  /\ UNCHANGED <<db, locks, now, pendingTasks, hist>>

\* newBalance = (parseFloat(user.balance) || 0) + parseFloat(submission.task_reward || 0)
BulkCredit(p) ==
  /\ procs[p].op = "bulk" /\ procs[p].pc = "b_credit"
  /\ LET newBalance == procs[p].usr.balance + procs[p].sub.task_reward
     IN procs' = [procs EXCEPT
          ![p].writes = Append(@, Write("balance", procs[p].sub.user_id, newBalance)),
          ![p].pc = "b_completed"]
  /\ UNCHANGED <<db, locks, now, pendingTasks, hist>>

\* INSERT INTO completed_tasks ... ON CONFLICT DO NOTHING; approvedCount++
BulkInsertCompleted(p) ==
  /\ procs[p].op = "bulk" /\ procs[p].pc = "b_completed"
  /\ procs' = [procs EXCEPT
       ![p].writes = Append(@, Write("completed",
                                     <<procs[p].sub.user_id, procs[p].sub.task_id>>,
                                     procs[p].sub.task_reward)),
       ![p].count = @ + 1,
       ![p].idx = @ + 1,
       ![p].pc = "b_next_row"]
  /\ UNCHANGED <<db, locks, now, pendingTasks, hist>>

\* const tasksApproved = await getSetting('tasksApproved')
BulkGetSetting(p) ==
  /\ procs[p].op = "bulk" /\ procs[p].pc = "b_get_setting"
  /\ procs' = [procs EXCEPT ![p].val = getSetting("tasksApproved"), ![p].pc = "b_upsert"]
  /\ UNCHANGED <<db, locks, now, pendingTasks, hist>>

\* Mutant of BulkUpsertCounter: the counter is raised by one for the whole batch.
BulkUpsertCounterByOne(p) ==
  /\ procs[p].op = "bulk" /\ procs[p].pc = "b_upsert"
  /\ LockFree(<<"setting", "tasksApproved">>, p)
  /\ locks' = [locks EXCEPT ![<<"setting", "tasksApproved">>] = p]
  /\ procs' = [procs EXCEPT
       ![p].writes = Append(@, Write("setting", "tasksApproved",
                                     ParseIntOr0(procs[p].val) + 1)),
       ![p].pc = "b_commit"]
  /\ UNCHANGED <<db, now, pendingTasks, hist>>

\* value = String((parseInt(tasksApproved) || 0) + approvedCount)
BulkUpsertCounter(p) ==
  /\ procs[p].op = "bulk" /\ procs[p].pc = "b_upsert"
  /\ LockFree(<<"setting", "tasksApproved">>, p)
  /\ locks' = [locks EXCEPT ![<<"setting", "tasksApproved">>] = p]
  /\ procs' = [procs EXCEPT
       ![p].writes = Append(@, Write("setting", "tasksApproved",
                                     ParseIntOr0(procs[p].val) + procs[p].count)),
       ![p].pc = "b_commit"]
  /\ UNCHANGED <<db, now, pendingTasks, hist>>

\* COMMIT; return { approvedCount }
BulkCommit(p) ==
  /\ procs[p].op = "bulk" /\ procs[p].pc = "b_commit"
  /\ Commit(p, "ok")
  /\ UNCHANGED hist

\* Registered users, and submissions that are pending or were rejected earlier.
InitBulk ==
  /\ InitCommon
  /\ \E owner \in [SubIds -> Users], task \in [SubIds -> TaskIds],
        status \in [SubIds -> {"pending", "rejected"}] :
       db = [users |-> [u \in Users |-> NewUser],
             tasks |-> [t \in TaskIds |-> [present |-> TRUE, reward |-> TaskReward(t)]],
             task_submissions |-> [s \in SubIds |->
                [present |-> TRUE, id |-> s, user_id |-> owner[s], task_id |-> task[s],
                 task_reward |-> TaskReward(task[s]), status |-> status[s],
                 reviewed_by |-> IF status[s] = "pending" THEN 0 ELSE AdminId,
                 reviewed_at |-> IF status[s] = "pending" THEN 0 ELSE 1]],
             completed_tasks |-> {},
             referrals |-> {},
             bot_settings |-> InitSettings,
             withdrawal_requests |-> <<>>,
             user_activity_log |-> {}]

NextBulk ==
  \E p \in Procs :
    \/ CallBulk(p)
    \/ BulkScan(p)
    \/ BulkLockRow(p)
    \/ BulkLockUser(p)
    \/ BulkUpdateSub(p)
    \/ BulkCredit(p)
    \/ BulkInsertCompleted(p)
    \/ BulkGetSetting(p)
    \/ BulkUpsertCounter(p)
    \/ BulkCommit(p)
    \/ TxFault(p)

SpecBulk == InitBulk /\ [][NextBulk]_vars

\* ---------------------------------------------------------------- claims on SpecBulk
RowIds(p) == {procs[p].rows[i].id : i \in 1..Len(procs[p].rows)}

\* C9: the COMMIT of an approveAllPendingSubmissions call adds to every account the
\* sum of the snapshotted rewards of the locked pending submissions it owns, leaves
\* every one of them (and so every submission that was pending) approved, adds their
\* number to tasksApproved, and the call returns that number.
C9_BulkApprove ==
  [][\A p \in Procs :
       (procs[p].op = "bulk" /\ procs[p].pc = "b_commit" /\ procs'[p].res = "ok") =>
         /\ \A u \in Users :
              db'.users[u].balance = db.users[u].balance
                + SumReward(db, {s \in RowIds(p) : db.task_submissions[s].user_id = u})
         /\ \A s \in SubIds :
              db.task_submissions[s].status = "pending" =>
                s \in RowIds(p) /\ db'.task_submissions[s].status = "approved"
         /\ \A s \in RowIds(p) : db.task_submissions[s].status = "pending"
         /\ ParseIntOr0(db'.bot_settings["tasksApproved"])
              = ParseIntOr0(db.bot_settings["tasksApproved"]) + Len(procs[p].rows)
         /\ procs'[p].count = Len(procs[p].rows)
    ]_vars

\* A call has committed two submissions of one account and credited both rewards.
C9_Witness ==
  \E p \in Procs :
    /\ procs[p].op = "bulk" /\ procs[p].res = "ok" /\ procs[p].count >= 2
    /\ \E i, j \in 1..Len(procs[p].rows) :
         /\ i # j
         /\ procs[p].rows[i].user_id = procs[p].rows[j].user_id
         /\ db.users[procs[p].rows[i].user_id].balance
              >= procs[p].rows[i].task_reward + procs[p].rows[j].task_reward
         /\ db.task_submissions[procs[p].rows[i].id].status = "approved"
         /\ db.task_submissions[procs[p].rows[j].id].status = "approved"

\* ---------------------------------------------------------------- verifyUserAndReward
\* parseFloat((await getSetting('referralReward')) || '0')
ParseFloatOr0(x) == IF x.isNull THEN 0 ELSE x.value

CallVerify(p, b) ==
  /\ procs[p].pc = "idle"
  /\ procs' = [procs EXCEPT ![p].op = "verify", ![p].pc = "v_lock_referee", ![p].arg = b]
  /\ UNCHANGED <<db, locks, now, pendingTasks, hist>>

\* Mutant of VerifyLockReferee: the referee is read without FOR UPDATE.
VerifyLockRefereeNoLock(p) ==
  /\ procs[p].op = "verify" /\ procs[p].pc = "v_lock_referee"
  /\ LET b == procs[p].arg
         referee == UserRow(db, b)
     IN IF ~referee.present THEN Rollback(p, "NotFound")
        ELSE /\ procs' = [procs EXCEPT
                  ![p].usr = referee,
                  ![p].pc = IF referee.verified THEN "v_commit_already" ELSE "v_mark"]
             /\ UNCHANGED <<db, locks, now, pendingTasks, hist>>

\* SELECT * FROM users WHERE id = $1 FOR UPDATE; 'Referee not found'; if
\* (referee.verified) the transaction is committed as it stands.
VerifyLockReferee(p) ==
  /\ procs[p].op = "verify" /\ procs[p].pc = "v_lock_referee"
  /\ LET b == procs[p].arg
         referee == UserRow(db, b)
     IN IF ~referee.present THEN Rollback(p, "NotFound")
        ELSE /\ LockFree(<<"user", b>>, p)
             /\ locks' = [locks EXCEPT ![<<"user", b>>] = p]
             /\ procs' = [procs EXCEPT
                  ![p].usr = referee,
                  ![p].pc = IF referee.verified THEN "v_commit_already" ELSE "v_mark"]
             /\ UNCHANGED <<db, now, pendingTasks, hist>>

\* COMMIT; return { alreadyVerified: true }
VerifyCommitAlready(p) ==
  /\ procs[p].op = "verify" /\ procs[p].pc = "v_commit_already"
  /\ Commit(p, "alreadyVerified")
  /\ UNCHANGED hist

\* UPDATE users SET verified = TRUE WHERE id = $1; if (referee.referred_by) ...
VerifyMark(p) ==
  /\ procs[p].op = "verify" /\ procs[p].pc = "v_mark"
  /\ procs' = [procs EXCEPT
       ![p].writes = Append(@, Write("verified", procs[p].arg, TRUE)),
       ![p].pc = IF procs[p].usr.referred_by # NoUser THEN "v_lock_referrer"
                 ELSE "v_commit"]
  /\ UNCHANGED <<db, locks, now, pendingTasks, hist>>

\* Mutant of VerifyLockReferrer: a missing referrer throws, as a missing referee does.
VerifyLockReferrerStrict(p) ==
  /\ procs[p].op = "verify" /\ procs[p].pc = "v_lock_referrer"
  /\ LET a == procs[p].usr.referred_by
         referrer == UserRow(TxView(p), a)
     IN IF ~referrer.present
        THEN Rollback(p, "NotFound")
        ELSE /\ LockFree(<<"user", a>>, p)
             /\ locks' = [locks EXCEPT ![<<"user", a>>] = p]
             /\ procs' = [procs EXCEPT ![p].ref = referrer, ![p].pc = "v_get_setting"]
             /\ UNCHANGED <<db, now, pendingTasks, hist>>

\* SELECT * FROM users WHERE id = $1 FOR UPDATE (the referrer); if (referrer) ...
VerifyLockReferrer(p) ==
  /\ procs[p].op = "verify" /\ procs[p].pc = "v_lock_referrer"
  /\ LET a == procs[p].usr.referred_by
         referrer == UserRow(TxView(p), a)
     IN IF ~referrer.present
        THEN /\ procs' = [procs EXCEPT ![p].pc = "v_commit"]
             /\ UNCHANGED <<db, locks, now, pendingTasks, hist>>
        ELSE /\ LockFree(<<"user", a>>, p)
             /\ locks' = [locks EXCEPT ![<<"user", a>>] = p]
             /\ procs' = [procs EXCEPT ![p].ref = referrer, ![p].pc = "v_get_setting"]
             /\ UNCHANGED <<db, now, pendingTasks, hist>>

\* await getSetting('referralReward')
VerifyGetSetting(p) ==
  /\ procs[p].op = "verify" /\ procs[p].pc = "v_get_setting"
  /\ procs' = [procs EXCEPT ![p].val = getSetting("referralReward"), ![p].pc = "v_credit"]
  /\ UNCHANGED <<db, locks, now, pendingTasks, hist>>

\* newBalance = (parseFloat(referrer.balance) || 0) + referralReward; UPDATE users
VerifyCredit(p) ==
  /\ procs[p].op = "verify" /\ procs[p].pc = "v_credit"
  /\ LET newBalance == procs[p].ref.balance + ParseFloatOr0(procs[p].val)
     IN procs' = [procs EXCEPT
          ![p].writes = Append(@, Write("balance", procs[p].usr.referred_by, newBalance)),
          ![p].pc = "v_referral"]
  /\ UNCHANGED <<db, locks, now, pendingTasks, hist>>

\* INSERT INTO referrals (referrer_id, referred_id) ... ON CONFLICT DO NOTHING
VerifyInsertReferral(p) ==
  /\ procs[p].op = "verify" /\ procs[p].pc = "v_referral"
  /\ procs' = [procs EXCEPT
       ![p].writes = Append(@, Write("referral",
                                     <<procs[p].usr.referred_by, procs[p].arg>>, TRUE)),
       ![p].pc = "v_commit"]
  /\ UNCHANGED <<db, locks, now, pendingTasks, hist>>

\* COMMIT; return { success: true }
VerifyCommit(p) ==
  /\ procs[p].op = "verify" /\ procs[p].pc = "v_commit"
  /\ Commit(p, "ok")
  /\ UNCHANGED hist

\* ---------------------------------------------------------------- updateUser, addReferral
\* updateUser(userId, {field: value}): one UPDATE users SET field = $1 WHERE id = $2
\* through the pool. It waits while a transaction holds the row lock and is
\* committed at once; it changes no row when the id has none.
RowUnlocked(u) == u \in Users => locks[<<"user", u>>] = NoProc

updateUser(d, u, field, value) ==
  IF u \in Users /\ d.users[u].present
  THEN [d EXCEPT !.users[u] = [@ EXCEPT ![field] = value]]
  ELSE d

\* addReferral: INSERT INTO referrals ... ON CONFLICT DO NOTHING. Both ids are
\* foreign keys into users: with no such row the insert fails, and the error is
\* caught and logged.
addReferral(d, a, b) ==
  IF UserRow(d, a).present /\ UserRow(d, b).present
  THEN [d EXCEPT !.referrals = @ \cup {<<a, b>>}]
  ELSE d

\* ---------------------------------------------------------------- callback verify_now
\* parseFloat(await db.getSetting('referralReward')) || 20
DefaultReferralReward == 20

ParseFloatOr20(x) == IF x.isNull \/ x.value = 0 THEN DefaultReferralReward ELSE x.value

CallVerifyNow(p, u) ==
  /\ procs[p].pc = "idle"
  /\ procs' = [procs EXCEPT ![p].op = "verify_now", ![p].pc = "n_channels", ![p].arg = u]
  /\ UNCHANGED <<db, locks, now, pendingTasks, hist>>

\* bot.getChatMember for every channel of CHANNELS_TO_VERIFY: the user is a member
\* of all of them, or not and the handler answers and returns.
VerifyNowChannels(p) ==
  /\ procs[p].op = "verify_now" /\ procs[p].pc = "n_channels"
  /\ \E member \in BOOLEAN :
       procs' = [procs EXCEPT
         ![p].pc = IF member THEN "n_get_user" ELSE "done",
         ![p].res = IF member THEN "none" ELSE "not_member"]
  /\ UNCHANGED <<db, locks, now, pendingTasks, hist>>

\* const user = await db.getUser(userId); if (!user.verified) ...
VerifyNowGetUser(p) ==
  /\ procs[p].op = "verify_now" /\ procs[p].pc = "n_get_user"
  /\ LET user == UserRow(db, procs[p].arg)
     IN procs' = [procs EXCEPT
          ![p].usr = user,
          ![p].pc = IF ~user.present THEN "done"
                    ELSE IF ~user.verified THEN "n_set_verified" ELSE "done",
          ![p].res = IF ~user.present THEN "TypeError"
                     ELSE IF ~user.verified THEN "none" ELSE "ok"]
  /\ UNCHANGED <<db, locks, now, pendingTasks, hist>>

\* await db.updateUser(userId, { verified: true }); if (user.referred_by) ...
VerifyNowSetVerified(p) ==
  /\ procs[p].op = "verify_now" /\ procs[p].pc = "n_set_verified"
  /\ RowUnlocked(procs[p].arg)
  /\ db' = updateUser(db, procs[p].arg, "verified", TRUE)
  /\ procs' = [procs EXCEPT
       ![p].pc = IF procs[p].usr.referred_by # NoUser THEN "n_get_setting" ELSE "done",
       ![p].res = IF procs[p].usr.referred_by # NoUser THEN "none" ELSE "ok"]
  /\ UNCHANGED <<locks, now, pendingTasks, hist>>

\* const referralReward = parseFloat(await db.getSetting('referralReward')) || 20
VerifyNowGetSetting(p) ==
  /\ procs[p].op = "verify_now" /\ procs[p].pc = "n_get_setting"
  /\ procs' = [procs EXCEPT ![p].val = getSetting("referralReward"),
                            ![p].pc = "n_get_referrer"]
  /\ UNCHANGED <<db, locks, now, pendingTasks, hist>>

\* const referrer = await db.getUser(user.referred_by); referrer.balance throws a
\* TypeError when there is no such account.
VerifyNowGetReferrer(p) ==
  /\ procs[p].op = "verify_now" /\ procs[p].pc = "n_get_referrer"
  /\ LET referrer == UserRow(db, procs[p].usr.referred_by)
     IN procs' = [procs EXCEPT
          ![p].ref = referrer,
          ![p].pc = IF referrer.present THEN "n_credit" ELSE "done",
          ![p].res = IF referrer.present THEN "none" ELSE "TypeError"]
  /\ UNCHANGED <<db, locks, now, pendingTasks, hist>>

\* await db.updateUser(user.referred_by, { balance: parseFloat(referrer.balance) + referralReward })
VerifyNowCredit(p) ==
  /\ procs[p].op = "verify_now" /\ procs[p].pc = "n_credit"
  /\ RowUnlocked(procs[p].usr.referred_by)
  /\ db' = updateUser(db, procs[p].usr.referred_by, "balance",
                      procs[p].ref.balance + ParseFloatOr20(procs[p].val))
  /\ procs' = [procs EXCEPT ![p].pc = "n_add_referral"]
  /\ UNCHANGED <<locks, now, pendingTasks, hist>>

\* await db.addReferral(user.referred_by, userId); the messages that follow change
\* no state.
VerifyNowAddReferral(p) ==
  /\ procs[p].op = "verify_now" /\ procs[p].pc = "n_add_referral"
  /\ db' = addReferral(db, procs[p].usr.referred_by, procs[p].arg)
  /\ procs' = [procs EXCEPT ![p].pc = "done", ![p].res = "ok"]
  /\ UNCHANGED <<locks, now, pendingTasks, hist>>

\* An id that /start can store in referred_by and that has no account.
MissingUser == NumUsers + 1

\* Registered accounts with no balance; referred_by was set by /start to another
\* id (never the account's own) or is NULL; referralReward is as seeded, was set
\* to 0, or has no row.
InitVerify ==
  /\ InitCommon
  /\ \E referred_by \in [Users -> Users \cup {NoUser, MissingUser}],
        verified \in [Users -> BOOLEAN],
        reward \in {NullSetting, SettingOf(0), SettingOf(DefaultReferralReward)} :
       /\ \A u \in Users : referred_by[u] # u
       /\ db = [users |-> [u \in Users |->
                   [NewUser EXCEPT !.referred_by = referred_by[u],
                                   !.verified = verified[u]]],
                tasks |-> [t \in TaskIds |-> NoTaskRow],
                task_submissions |-> [s \in SubIds |-> NoSubRow],
                completed_tasks |-> {},
                referrals |-> {},
                bot_settings |-> [InitSettings EXCEPT !["referralReward"] = reward],
                withdrawal_requests |-> <<>>,
                user_activity_log |-> {}]

NextVerify ==
  \E p \in Procs :
    \/ \E b \in Users \cup {MissingUser} : CallVerify(p, b)
    \/ VerifyLockReferee(p)
    \/ VerifyCommitAlready(p)
    \/ VerifyMark(p)
    \/ VerifyLockReferrer(p)
    \/ VerifyGetSetting(p)
    \/ VerifyCredit(p)
    \/ VerifyInsertReferral(p)
    \/ VerifyCommit(p)
    \/ TxFault(p)
    \/ \E u \in Users : CallVerifyNow(p, u)
    \/ VerifyNowChannels(p)
    \/ VerifyNowGetUser(p)
    \/ VerifyNowSetVerified(p)
    \/ VerifyNowGetSetting(p)
    \/ VerifyNowGetReferrer(p)
    \/ VerifyNowCredit(p)
    \/ VerifyNowAddReferral(p)

SpecVerify == InitVerify /\ [][NextVerify]_vars

\* ---------------------------------------------------------------- claims on SpecVerify
\* C5: the COMMIT of verifyUserAndReward(B), for an unverified B whose referred_by is
\* an existing account A, leaves B verified, A's balance larger by exactly the
\* referralReward setting, and the edge (A, B) in referrals; a call that finds B
\* verified goes to the already-verified return, which changes no row.
C5_VerifyAndReward ==
  [][\A p \in Procs :
       procs[p].op = "verify" =>
         LET b == procs[p].arg
             a == procs[p].usr.referred_by
         IN /\ ( /\ procs[p].pc = "v_commit" /\ procs'[p].res = "ok"
                 /\ UserRow(db, a).present )
               => /\ ~db.users[b].verified
                  /\ db'.users[b].verified
                  /\ db'.users[a].balance
                       = db.users[a].balance + ParseFloatOr0(getSetting("referralReward"))
                  /\ <<a, b>> \in db'.referrals
            /\ ( /\ procs[p].pc = "v_lock_referee" /\ procs'[p].pc # "v_lock_referee"
                 /\ UserRow(db, b).verified /\ procs'[p].res # "Faulted" )
               => procs'[p].pc = "v_commit_already" /\ procs'[p].writes = <<>>
            /\ (procs[p].pc = "v_commit_already" /\ procs'[p].res = "alreadyVerified")
               => db' = db
    ]_vars

\* B was verified by one call, which paid A the seeded reward and added the edge, and
\* a later call on B returned already-verified.
C5_Witness ==
  \E p, q \in Procs :
    /\ procs[p].op = "verify" /\ procs[p].res = "ok"
    /\ procs[q].op = "verify" /\ procs[q].res = "alreadyVerified"
    /\ procs[p].arg = procs[q].arg
    /\ procs[p].usr.referred_by \in Users
    /\ db.users[procs[p].arg].verified
    /\ db.users[procs[p].usr.referred_by].balance = DefaultReferralReward
    /\ <<procs[p].usr.referred_by, procs[p].arg>> \in db.referrals

\* C6: a referrer is credited at most once for each referred account that is
\* verified. No single credit exceeds DefaultReferralReward here, so a referrer's
\* balance (initially 0) never exceeds that amount times its verified referees.
C6_RewardAtMostOnce ==
  \A a \in Users :
    db.users[a].balance
      <= DefaultReferralReward
           * Cardinality({b \in Users : db.users[b].verified /\ db.users[b].referred_by = a})

\* ---------------------------------------------------------------- /addtask, task submission
\* What parseFloat(match[3]) gives for the reward text of /addtask: (.+) matches
\* any text, so a negative numeral and a non-numeral are inputs too.
NaN == [isNaN |-> TRUE, value |-> 0]

Num(n) == [isNaN |-> FALSE, value |-> n]

RewardInputs == {NaN, Num(-5), Num(5)}

\* SERIAL ids: the next id of a table no row was deleted from.
NextTaskId == Cardinality({t \in TaskIds : db.tasks[t].present}) + 1

NextSubId == Cardinality({s \in SubIds : db.task_submissions[s].present}) + 1

\* /addtask Title | Description | Reward, sent by an admin: only isNaN(reward) is
\* refused; createTask inserts the row.
AddTask(reward) ==
  /\ NextTaskId \in TaskIds
  /\ db' = IF reward.isNaN THEN db
           ELSE [db EXCEPT !.tasks[NextTaskId] = [present |-> TRUE, reward |-> reward.value]]
  /\ UNCHANGED <<locks, procs, now, pendingTasks, hist>>

\* callback select_task:<id>: getTaskById, then pendingTasks[userId] is replaced by
\* a new object holding parseFloat(task.reward) and no files.
SelectTask(u, t) ==
  /\ TaskRow(db, t).present
  /\ pendingTasks' = [pendingTasks EXCEPT
       ![u] = [present |-> TRUE, taskId |-> t, taskReward |-> db.tasks[t].reward,
               hasFiles |-> FALSE]]
  /\ UNCHANGED <<db, locks, procs, now, hist>>

\* A photo message while pendingTasks[uid] exists: files.push(photo.file_id)
UploadPhoto(u) ==
  /\ pendingTasks[u].present /\ ~pendingTasks[u].hasFiles
  /\ pendingTasks' = [pendingTasks EXCEPT ![u].hasFiles = TRUE]
  /\ UNCHANGED <<db, locks, procs, now, hist>>

\* finishTaskSubmit(userId): const pending = pendingTasks[userId], the two checks,
\* then getUserIdentifier and getTaskById, which only read.
CallFinishTaskSubmit(p, u) ==
  /\ procs[p].pc = "idle"
  /\ LET pending == pendingTasks[u]
         go == pending.present /\ pending.hasFiles
     IN procs' = [procs EXCEPT
          ![p].op = "finish_submit", ![p].arg = u, ![p].pending = pending,
          ![p].pc = IF go THEN "f_insert" ELSE "done",
          ![p].res = IF go THEN "none" ELSE "NoPending"]
  /\ UNCHANGED <<db, locks, now, pendingTasks, hist>>

\* createTaskSubmission: INSERT INTO task_submissions (..., task_reward, ..., status)
\* VALUES (..., pending.taskReward, ..., 'pending')
FinishInsert(p) ==
  /\ procs[p].op = "finish_submit" /\ procs[p].pc = "f_insert"
  /\ NextSubId \in SubIds
  /\ db' = [db EXCEPT !.task_submissions[NextSubId] =
              [present |-> TRUE, id |-> NextSubId, user_id |-> procs[p].arg,
               task_id |-> procs[p].pending.taskId,
               task_reward |-> procs[p].pending.taskReward,
               status |-> "pending", reviewed_by |-> 0, reviewed_at |-> 0]]
  /\ procs' = [procs EXCEPT ![p].pc = "f_get_setting"]
  /\ UNCHANGED <<locks, now, pendingTasks, hist>>

\* incrementSetting('tasksSubmitted'): const current = await getSetting(key)
FinishGetSetting(p) ==
  /\ procs[p].op = "finish_submit" /\ procs[p].pc = "f_get_setting"
  /\ procs' = [procs EXCEPT ![p].val = getSetting("tasksSubmitted"), ![p].pc = "f_set_setting"]
  /\ UNCHANGED <<db, locks, now, pendingTasks, hist>>

\* incrementSetting: await setSetting(key, (parseInt(current) || 0) + 1)
FinishSetSetting(p) ==
  /\ procs[p].op = "finish_submit" /\ procs[p].pc = "f_set_setting"
  /\ db' = [db EXCEPT !.bot_settings["tasksSubmitted"] = SettingOf(ParseIntOr0(procs[p].val) + 1)]
  /\ procs' = [procs EXCEPT ![p].pc = "f_delete"]
  /\ UNCHANGED <<locks, now, pendingTasks, hist>>

\* The review messages are sent (a failing send ends the handler here), then
\* delete pendingTasks[userId]
FinishDelete(p) ==
  /\ procs[p].op = "finish_submit" /\ procs[p].pc = "f_delete"
  /\ \E sent \in BOOLEAN :
       /\ pendingTasks' = IF sent THEN [pendingTasks EXCEPT ![procs[p].arg] = NoPending]
                          ELSE pendingTasks
       /\ procs' = [procs EXCEPT ![p].pc = "done",
                                 ![p].res = IF sent THEN "ok" ELSE "SendFailed"]
  /\ UNCHANGED <<db, locks, now, hist>>

\* Registered accounts with no balance; no task and no submission yet.
InitTasks ==
  /\ InitCommon
  /\ db = [users |-> [u \in Users |-> NewUser],
           tasks |-> [t \in TaskIds |-> NoTaskRow],
           task_submissions |-> [s \in SubIds |-> NoSubRow],
           completed_tasks |-> {},
           referrals |-> {},
           bot_settings |-> InitSettings,
           withdrawal_requests |-> <<>>,
           user_activity_log |-> {}]

NextTasks ==
  \/ \E reward \in RewardInputs : AddTask(reward)
  \/ \E u \in Users, t \in TaskIds : SelectTask(u, t)
  \/ \E u \in Users : UploadPhoto(u)
  \/ \E p \in Procs :
       \/ \E u \in Users : CallFinishTaskSubmit(p, u)
       \/ FinishInsert(p)
       \/ FinishGetSetting(p)
       \/ FinishSetSetting(p)
       \/ FinishDelete(p)
       \/ \E s \in SubIds : CallApprove(p, s)
       \/ ApproveLockSub(p)
       \/ ApproveLockUser(p)
       \/ ApproveUpdateSub(p)
       \/ ApproveCredit(p)
       \/ ApproveInsertCompleted(p)
       \/ ApproveGetSetting(p)
       \/ ApproveUpsertCounter(p)
       \/ ApproveCommit(p)
       \/ TxFault(p)

SpecTasks == InitTasks /\ [][NextTasks]_vars

\* ---------------------------------------------------------------- claims on SpecTasks
\* C8: in every reachable state every account's balance is greater than or equal
\* to zero.
C8_BalanceNonNegative == \A u \in Users : db.users[u].balance >= 0

\* ---------------------------------------------------------------- handleBonus
\* twentyFourHours, in the units of now
TwentyFourHours == 2

\* parseFloat(await db.getSetting('bonusAmount')) || 3
DefaultBonus == 3

ParseFloatOr(x, dflt) == IF x.isNull \/ x.value = 0 THEN dflt ELSE x.value

CallBonus(p, u) ==
  /\ procs[p].pc = "idle"
  /\ procs' = [procs EXCEPT ![p].op = "bonus", ![p].pc = "bo_get_user", ![p].arg = u]
  /\ UNCHANGED <<db, locks, now, pendingTasks, hist>>

\* const user = await db.getUser(userId); if (now - lastClaim < twentyFourHours) return
BonusGetUser(p) ==
  /\ procs[p].op = "bonus" /\ procs[p].pc = "bo_get_user"
  /\ LET user == UserRow(db, procs[p].arg)
         early == now - user.last_bonus_claim < TwentyFourHours
     IN procs' = [procs EXCEPT
          ![p].usr = user,
          ![p].idx = now,
          ![p].pc = IF ~user.present \/ early THEN "done" ELSE "bo_get_setting",
          ![p].res = IF ~user.present THEN "TypeError"
                     ELSE IF early THEN "TooEarly" ELSE "none"]
  /\ UNCHANGED <<db, locks, now, pendingTasks, hist>>

\* const bonus = parseFloat(await db.getSetting('bonusAmount')) || 3
BonusGetSetting(p) ==
  /\ procs[p].op = "bonus" /\ procs[p].pc = "bo_get_setting"
  /\ procs' = [procs EXCEPT ![p].val = getSetting("bonusAmount"), ![p].pc = "bo_update"]
  /\ UNCHANGED <<db, locks, now, pendingTasks, hist>>

\* A variant of the bonus write that adds to the balance the row holds at the
\* time of the write.
BonusUpdateRelative(p) ==
  /\ procs[p].op = "bonus" /\ procs[p].pc = "bo_update"
  /\ RowUnlocked(procs[p].arg)
  /\ LET u == procs[p].arg
         bonus == ParseFloatOr(procs[p].val, DefaultBonus)
     IN /\ db' = updateUser(updateUser(db, u, "balance", UserRow(db, u).balance + bonus),
                            u, "last_bonus_claim", procs[p].idx)
        /\ hist' = [hist EXCEPT ![u] = @ + bonus]
  /\ procs' = [procs EXCEPT ![p].pc = "done", ![p].res = "ok"]
  /\ UNCHANGED <<locks, now, pendingTasks>>

\* await db.updateUser(userId, { balance: parseFloat(user.balance) + bonus,
\*                               last_bonus_claim: now })
BonusUpdate(p) ==
  /\ procs[p].op = "bonus" /\ procs[p].pc = "bo_update"
  /\ RowUnlocked(procs[p].arg)
  /\ LET u == procs[p].arg
         bonus == ParseFloatOr(procs[p].val, DefaultBonus)
     IN /\ db' = updateUser(updateUser(db, u, "balance", procs[p].usr.balance + bonus),
                            u, "last_bonus_claim", procs[p].idx)
        /\ hist' = [hist EXCEPT ![u] = @ + bonus]
  /\ procs' = [procs EXCEPT ![p].pc = "done", ![p].res = "ok"]
  /\ UNCHANGED <<locks, now, pendingTasks>>

\* ---------------------------------------------------------------- /addbalance, /removebalance
\* The amounts an admin types: (\d+) matches unsigned numerals only.
AdminAmounts == {10, 200}

CallAddBalance(p, u, amount) ==
  /\ procs[p].pc = "idle"
  /\ procs' = [procs EXCEPT ![p].op = "addbalance", ![p].pc = "ab_get_user",
                            ![p].arg = u, ![p].amt = amount]
  /\ UNCHANGED <<db, locks, now, pendingTasks, hist>>

\* const user = await db.getUser(targetId); then getUserIdentifier, which only reads.
AddBalanceGetUser(p) ==
  /\ procs[p].op = "addbalance" /\ procs[p].pc = "ab_get_user"
  /\ LET user == UserRow(db, procs[p].arg)
     IN procs' = [procs EXCEPT
          ![p].usr = user,
          ![p].pc = IF user.present THEN "ab_update" ELSE "done",
          ![p].res = IF user.present THEN "none" ELSE "TypeError"]
  /\ UNCHANGED <<db, locks, now, pendingTasks, hist>>

\* await db.updateUser(targetId, { balance: (parseFloat(user.balance) || 0) + amount })
AddBalanceUpdate(p) ==
  /\ procs[p].op = "addbalance" /\ procs[p].pc = "ab_update"
  /\ RowUnlocked(procs[p].arg)
  /\ db' = updateUser(db, procs[p].arg, "balance", procs[p].usr.balance + procs[p].amt)
  /\ hist' = [hist EXCEPT ![procs[p].arg] = @ + procs[p].amt]
  /\ procs' = [procs EXCEPT ![p].pc = "done", ![p].res = "ok"]
  /\ UNCHANGED <<locks, now, pendingTasks>>

CallRemoveBalance(p, u, amount) ==
  /\ procs[p].pc = "idle"
  /\ procs' = [procs EXCEPT ![p].op = "removebalance", ![p].pc = "rb_get_user",
                            ![p].arg = u, ![p].amt = amount]
  /\ UNCHANGED <<db, locks, now, pendingTasks, hist>>

\* const user = await db.getUser(targetId); then getUserIdentifier, which only reads.
RemoveBalanceGetUser(p) ==
  /\ procs[p].op = "removebalance" /\ procs[p].pc = "rb_get_user"
  /\ LET user == UserRow(db, procs[p].arg)
     IN procs' = [procs EXCEPT
          ![p].usr = user,
          ![p].pc = IF user.present THEN "rb_update" ELSE "done",
          ![p].res = IF user.present THEN "none" ELSE "TypeError"]
  /\ UNCHANGED <<db, locks, now, pendingTasks, hist>>

\* removeAmt = Math.min(amount, oldBalance);
\* await db.updateUser(targetId, { balance: oldBalance - removeAmt })
RemoveBalanceUpdate(p) ==
  /\ procs[p].op = "removebalance" /\ procs[p].pc = "rb_update"
  /\ RowUnlocked(procs[p].arg)
  /\ LET oldBalance == procs[p].usr.balance
         removeAmt == IF procs[p].amt < oldBalance THEN procs[p].amt ELSE oldBalance
     IN /\ db' = updateUser(db, procs[p].arg, "balance", oldBalance - removeAmt)
        /\ hist' = [hist EXCEPT ![procs[p].arg] = @ - removeAmt]
  /\ procs' = [procs EXCEPT ![p].pc = "done", ![p].res = "ok"]
  /\ UNCHANGED <<locks, now, pendingTasks>>

\* ---------------------------------------------------------------- /requestwithdraw
\* parseFloat(await db.getSetting('minWithdrawal')) || 50
DefaultMinWithdrawal == 50

\* parseFloat(await db.getSetting('maxWithdrawal')) || 10000
DefaultMaxWithdrawal == 10000

\* What parseFloat(match[1]) gives for the texts a user sends.
WithdrawInputs == {NaN, Num(0), Num(30), Num(60), Num(20000)}

\* if (isNaN(amount) || amount <= 0) return
CallRequestWithdraw(p, u, amount) ==
  /\ procs[p].pc = "idle"
  /\ LET bad == amount.isNaN \/ amount.value <= 0
     IN procs' = [procs EXCEPT
          ![p].op = "withdraw", ![p].arg = u, ![p].amt = amount.value,
          ![p].pc = IF bad THEN "done" ELSE "w_get_open",
          ![p].res = IF bad THEN "InvalidAmount" ELSE "none"]
  /\ UNCHANGED <<db, locks, now, pendingTasks, hist>>

\* const withdrawalOpen = (await db.getSetting('withdrawalOpen')) === 'true'
WithdrawGetOpen(p) ==
  /\ procs[p].op = "withdraw" /\ procs[p].pc = "w_get_open"
  /\ LET withdrawalOpen == getSetting("withdrawalOpen") = SettingOf(1)
     IN procs' = [procs EXCEPT
          ![p].pc = IF withdrawalOpen THEN "w_get_min" ELSE "done",
          ![p].res = IF withdrawalOpen THEN "none" ELSE "Closed"]
  /\ UNCHANGED <<db, locks, now, pendingTasks, hist>>

\* const minWithdrawal = parseFloat(await db.getSetting('minWithdrawal')) || 50
WithdrawGetMin(p) ==
  /\ procs[p].op = "withdraw" /\ procs[p].pc = "w_get_min"
  /\ procs' = [procs EXCEPT ![p].lo = getSetting("minWithdrawal"), ![p].pc = "w_get_max"]
  /\ UNCHANGED <<db, locks, now, pendingTasks, hist>>

\* const maxWithdrawal = parseFloat(await db.getSetting('maxWithdrawal')) || 10000;
\* if (amount < minWithdrawal || amount > maxWithdrawal) return
WithdrawGetMax(p) ==
  /\ procs[p].op = "withdraw" /\ procs[p].pc = "w_get_max"
  /\ LET maxWithdrawal == getSetting("maxWithdrawal")
         inRange == /\ procs[p].amt >= ParseFloatOr(procs[p].lo, DefaultMinWithdrawal)
                    /\ procs[p].amt <= ParseFloatOr(maxWithdrawal, DefaultMaxWithdrawal)
     IN procs' = [procs EXCEPT
          ![p].hi = maxWithdrawal,
          ![p].pc = IF inRange THEN "w_get_user" ELSE "done",
          ![p].res = IF inRange THEN "none" ELSE "OutOfRange"]
  /\ UNCHANGED <<db, locks, now, pendingTasks, hist>>

\* const user = await db.getUser(userId); the balance and the wallet checks.
WithdrawGetUser(p) ==
  /\ procs[p].op = "withdraw" /\ procs[p].pc = "w_get_user"
  /\ LET user == UserRow(db, procs[p].arg)
         r == IF ~user.present THEN "TypeError"
              ELSE IF user.balance < procs[p].amt THEN "Insufficient"
              ELSE IF ~user.wallet THEN "NoWallet" ELSE "none"
     IN procs' = [procs EXCEPT
          ![p].usr = user,
          ![p].pc = IF r = "none" THEN "w_create" ELSE "done",
          ![p].res = r]
  /\ UNCHANGED <<db, locks, now, pendingTasks, hist>>

\* createWithdrawalRequest: INSERT INTO withdrawal_requests (user_id, amount, wallet,
\* status, requested_at) VALUES ($1, $2, $3, 'pending', $4)
createWithdrawalRequest(d, u, amount) ==
  [d EXCEPT !.withdrawal_requests =
     Append(@, [id |-> Len(@) + 1, user_id |-> u, amount |-> amount, status |-> "pending",
                requested_at |-> now, reviewed_at |-> 0, reviewed_by |-> 0])]

\* await db.createWithdrawalRequest(userId, amount, user.wallet); then
\* getUserIdentifier, which only reads.
WithdrawCreate(p) ==
  /\ procs[p].op = "withdraw" /\ procs[p].pc = "w_create"
  /\ db' = createWithdrawalRequest(db, procs[p].arg, procs[p].amt)
  /\ procs' = [procs EXCEPT ![p].pc = "w_send_review"]
  /\ UNCHANGED <<locks, now, pendingTasks, hist>>

\* await bot.sendMessage(WITHDRAW_REVIEW_CHANNEL, ...): not in a try block, so a
\* rejected send ends the handler.
WithdrawSendReview(p) ==
  /\ procs[p].op = "withdraw" /\ procs[p].pc = "w_send_review"
  /\ \E sent \in BOOLEAN :
       procs' = [procs EXCEPT
         ![p].pc = IF sent THEN "w_send_user" ELSE "done",
         ![p].res = IF sent THEN "none" ELSE "SendFailed",
         ![p].at = IF sent THEN "none" ELSE "w_send_review"]
  /\ UNCHANGED <<db, locks, now, pendingTasks, hist>>

\* await bot.sendMessage(chatId, 'Withdrawal request submitted for review'): the same.
WithdrawSendUser(p) ==
  /\ procs[p].op = "withdraw" /\ procs[p].pc = "w_send_user"
  /\ \E sent \in BOOLEAN :
       procs' = [procs EXCEPT
         ![p].pc = IF sent THEN "w_debit" ELSE "done",
         ![p].res = IF sent THEN "none" ELSE "SendFailed",
         ![p].at = IF sent THEN "none" ELSE "w_send_user"]
  /\ UNCHANGED <<db, locks, now, pendingTasks, hist>>

\* await db.updateUser(userId, { balance: parseFloat(user.balance) - amount })
WithdrawDebit(p) ==
  /\ procs[p].op = "withdraw" /\ procs[p].pc = "w_debit"
  /\ RowUnlocked(procs[p].arg)
  /\ db' = updateUser(db, procs[p].arg, "balance", procs[p].usr.balance - procs[p].amt)
  /\ hist' = [hist EXCEPT ![procs[p].arg] = @ - procs[p].amt]
  /\ procs' = [procs EXCEPT ![p].pc = "done", ![p].res = "ok"]
  /\ UNCHANGED <<locks, now, pendingTasks>>

\* ---------------------------------------------------------------- the ledger handlers together
\* The balance every account starts with.
InitBalance == 100

\* Registered accounts holding InitBalance, with or without a wallet; withdrawals
\* open or closed; one pending submission per submission id.
InitLedger ==
  /\ InitCommon
  /\ \E owner \in [SubIds -> Users], wallet \in [Users -> BOOLEAN], open \in {0, 1} :
       db = [users |-> [u \in Users |->
                [NewUser EXCEPT !.balance = InitBalance, !.wallet = wallet[u]]],
             tasks |-> [t \in TaskIds |-> [present |-> TRUE, reward |-> TaskReward(t)]],
             task_submissions |-> [s \in SubIds |->
                [present |-> TRUE, id |-> s, user_id |-> owner[s], task_id |-> Min(TaskIds),
                 task_reward |-> TaskReward(Min(TaskIds)), status |-> "pending",
                 reviewed_by |-> 0, reviewed_at |-> 0]],
             completed_tasks |-> {},
             referrals |-> {},
             bot_settings |-> [InitSettings EXCEPT !["withdrawalOpen"] = SettingOf(open)],
             withdrawal_requests |-> <<>>,
             user_activity_log |-> {}]

NextLedger ==
  \E p \in Procs :
    \/ \E u \in Users : CallBonus(p, u)
    \/ BonusGetUser(p)
    \/ BonusGetSetting(p)
    \/ BonusUpdate(p)
    \/ \E u \in Users, amount \in AdminAmounts : CallAddBalance(p, u, amount)
    \/ AddBalanceGetUser(p)
    \/ AddBalanceUpdate(p)
    \/ \E u \in Users, amount \in AdminAmounts : CallRemoveBalance(p, u, amount)
    \/ RemoveBalanceGetUser(p)
    \/ RemoveBalanceUpdate(p)
    \/ \E u \in Users, amount \in WithdrawInputs : CallRequestWithdraw(p, u, amount)
    \/ WithdrawGetOpen(p)
    \/ WithdrawGetMin(p)
    \/ WithdrawGetMax(p)
    \/ WithdrawGetUser(p)
    \/ WithdrawCreate(p)
    \/ WithdrawSendReview(p)
    \/ WithdrawSendUser(p)
    \/ WithdrawDebit(p)
    \/ \E s \in SubIds : CallApprove(p, s)
    \/ ApproveLockSub(p)
    \/ ApproveLockUser(p)
    \/ ApproveUpdateSub(p)
    \/ ApproveCredit(p)
    \/ ApproveInsertCompleted(p)
    \/ ApproveGetSetting(p)
    \/ ApproveUpsertCounter(p)
    \/ ApproveCommit(p)
    \/ TxFault(p)

SpecLedger == InitLedger /\ [][NextLedger]_vars

\* ---------------------------------------------------------------- claims on SpecLedger
\* C4: when no handler is running, every account's balance is its initial balance
\* plus the credits and minus the debits of the operations that completed
\* successfully: no update was lost or overwritten by a stale value.
C4_BalanceIsSumOfCompletedOps ==
  Quiescent => \A u \in Users : db.users[u].balance = InitBalance + hist[u]

\* The withdrawal requests of account u.
RequestsOf(u) == SelectSeq(db.withdrawal_requests, LAMBDA r : r.user_id = u)

\* C7: after a /requestwithdraw attempt has finished, with no other handler having
\* run, either the pending request row exists and the balance was reduced by exactly
\* its amount, or no request row was created and the balance is unchanged.
C7_RequestAndDebitAllOrNothing ==
  \A p \in Procs :
    ( /\ procs[p].op = "withdraw" /\ procs[p].pc = "done"
      /\ \A q \in Procs \ {p} : procs[q].pc = "idle" )
    => LET u == procs[p].arg
       IN \/ /\ RequestsOf(u) = <<>>
             /\ db.users[u].balance = InitBalance
          \/ /\ Len(RequestsOf(u)) = 1
             /\ RequestsOf(u)[1].amount = procs[p].amt
             /\ RequestsOf(u)[1].status = "pending"
             /\ db.users[u].balance = InitBalance - procs[p].amt

\* ---------------------------------------------------------------- rejectSubmissionAtomic
\* The admins whose id is passed as reviewedBy.
OtherAdminId == 98

Admins == {AdminId, OtherAdminId}

CallReject(p, s, reviewedBy) ==
  /\ procs[p].pc = "idle"
  /\ procs' = [procs EXCEPT ![p].op = "reject", ![p].pc = "r_lock_sub", ![p].arg = s,
                            ![p].by = reviewedBy]
  /\ UNCHANGED <<db, locks, now, pendingTasks, hist>>

\* Faulty variant of RejectLockSub: the 'Submission not pending' check is missing.
RejectLockSubNoCheck(p) ==
  /\ procs[p].op = "reject" /\ procs[p].pc = "r_lock_sub"
  /\ LET s == procs[p].arg
         submission == SubRow(db, s)
     IN IF ~submission.present THEN Rollback(p, "NotFound")
        ELSE /\ LockFree(<<"sub", s>>, p)
             /\ locks' = [locks EXCEPT ![<<"sub", s>>] = p]
             /\ procs' = [procs EXCEPT ![p].sub = submission, ![p].pc = "r_upd_sub"]
             /\ UNCHANGED <<db, now, pendingTasks, hist>>

\* SELECT * FROM task_submissions WHERE id = $1 FOR UPDATE, and the two checks.
RejectLockSub(p) ==
  /\ procs[p].op = "reject" /\ procs[p].pc = "r_lock_sub"
  /\ LET s == procs[p].arg
         submission == SubRow(db, s)
     IN IF ~submission.present THEN Rollback(p, "NotFound")
        ELSE /\ LockFree(<<"sub", s>>, p)
             /\ IF submission.status # "pending" THEN Rollback(p, "InvalidState")
                ELSE /\ locks' = [locks EXCEPT ![<<"sub", s>>] = p]
                     /\ procs' = [procs EXCEPT ![p].sub = submission, ![p].pc = "r_upd_sub"]
                     /\ UNCHANGED <<db, now, pendingTasks, hist>>

\* UPDATE task_submissions SET status = 'rejected', reviewed_at = $1, reviewed_by = $2
\* WHERE id = $3
RejectUpdateSub(p) ==
  /\ procs[p].op = "reject" /\ procs[p].pc = "r_upd_sub"
  /\ procs' = [procs EXCEPT
       ![p].writes = Append(@, Write("sub_status", procs[p].arg,
                                     [status |-> "rejected", reviewed_by |-> procs[p].by,
                                      reviewed_at |-> now])),
       ![p].pc = "r_get_setting"]
  /\ UNCHANGED <<db, locks, now, pendingTasks, hist>>

\* const tasksRejected = await getSetting('tasksRejected')
RejectGetSetting(p) ==
  /\ procs[p].op = "reject" /\ procs[p].pc = "r_get_setting"
  /\ procs' = [procs EXCEPT ![p].val = getSetting("tasksRejected"), ![p].pc = "r_upsert"]
  /\ UNCHANGED <<db, locks, now, pendingTasks, hist>>

\* INSERT INTO bot_settings ... ON CONFLICT (key) DO UPDATE SET value = $1, with
\* String((parseInt(tasksRejected) || 0) + 1)
RejectUpsertCounter(p) ==
  /\ procs[p].op = "reject" /\ procs[p].pc = "r_upsert"
  /\ LockFree(<<"setting", "tasksRejected">>, p)
  /\ locks' = [locks EXCEPT ![<<"setting", "tasksRejected">>] = p]
  /\ procs' = [procs EXCEPT
       ![p].writes = Append(@, Write("setting", "tasksRejected",
                                     ParseIntOr0(procs[p].val) + 1)),
       ![p].pc = "r_commit"]
  /\ UNCHANGED <<db, now, pendingTasks, hist>>

\* COMMIT; return { success: true }
RejectCommit(p) ==
  /\ procs[p].op = "reject" /\ procs[p].pc = "r_commit"
  /\ Commit(p, "ok")
  /\ UNCHANGED hist

\* ---------------------------------------------------------------- rejectAllPendingSubmissions
CallBulkReject(p, reviewedBy) ==
  /\ procs[p].pc = "idle"
  /\ procs' = [procs EXCEPT ![p].op = "bulk_reject", ![p].pc = "br_scan",
                            ![p].by = reviewedBy]
  /\ UNCHANGED <<db, locks, now, pendingTasks, hist>>

\* SELECT * FROM task_submissions WHERE status = 'pending' FOR UPDATE: the rows that
\* are pending in the statement's snapshot ...
BulkRejectScan(p) ==
  /\ procs[p].op = "bulk_reject" /\ procs[p].pc = "br_scan"
  /\ procs' = [procs EXCEPT
       ![p].todo = {s \in SubIds : db.task_submissions[s].present
                                   /\ db.task_submissions[s].status = "pending"},
       ![p].pc = "br_lock_rows"]
  /\ UNCHANGED <<db, locks, now, pendingTasks, hist>>

\* ... locked one by one in scan order; a row another transaction held is kept only
\* if its committed version is still pending.
BulkRejectLockRow(p) ==
  /\ procs[p].op = "bulk_reject" /\ procs[p].pc = "br_lock_rows"
  /\ IF procs[p].todo = {}
     THEN /\ procs' = [procs EXCEPT ![p].pc = "br_next_row"]
          /\ UNCHANGED <<db, locks, now, pendingTasks, hist>>
     ELSE LET s == Min(procs[p].todo)
              submission == db.task_submissions[s]
          IN /\ LockFree(<<"sub", s>>, p)
             /\ IF submission.status = "pending"
                THEN /\ locks' = [locks EXCEPT ![<<"sub", s>>] = p]
                     /\ procs' = [procs EXCEPT ![p].todo = @ \ {s},
                                               ![p].rows = Append(@, submission)]
                ELSE /\ locks' = locks
                     /\ procs' = [procs EXCEPT ![p].todo = @ \ {s}]
             /\ UNCHANGED <<db, now, pendingTasks, hist>>

\* for (const submission of rows): UPDATE task_submissions SET status = 'rejected',
\* reviewed_at, reviewed_by WHERE id = submission.id; rejectedCount++
BulkRejectUpdateSub(p) ==
  /\ procs[p].op = "bulk_reject" /\ procs[p].pc = "br_next_row"
  /\ IF procs[p].idx > Len(procs[p].rows)
     THEN procs' = [procs EXCEPT ![p].pc = "br_get_setting"]
     ELSE procs' = [procs EXCEPT
            ![p].writes = Append(@, Write("sub_status", procs[p].rows[procs[p].idx].id,
                                          [status |-> "rejected", reviewed_by |-> procs[p].by,
                                           reviewed_at |-> now])),
            ![p].count = @ + 1,
            ![p].idx = @ + 1]
  /\ UNCHANGED <<db, locks, now, pendingTasks, hist>>

\* const tasksRejected = await getSetting('tasksRejected')
BulkRejectGetSetting(p) ==
  /\ procs[p].op = "bulk_reject" /\ procs[p].pc = "br_get_setting"
  /\ procs' = [procs EXCEPT ![p].val = getSetting("tasksRejected"), ![p].pc = "br_upsert"]
  /\ UNCHANGED <<db, locks, now, pendingTasks, hist>>

\* value = String((parseInt(tasksRejected) || 0) + rejectedCount)
BulkRejectUpsertCounter(p) ==
  /\ procs[p].op = "bulk_reject" /\ procs[p].pc = "br_upsert"
  /\ LockFree(<<"setting", "tasksRejected">>, p)
  /\ locks' = [locks EXCEPT ![<<"setting", "tasksRejected">>] = p]
  /\ procs' = [procs EXCEPT
       ![p].writes = Append(@, Write("setting", "tasksRejected",
                                     ParseIntOr0(procs[p].val) + procs[p].count)),
       ![p].pc = "br_commit"]
  /\ UNCHANGED <<db, now, pendingTasks, hist>>

\* COMMIT; return { rejectedCount }
BulkRejectCommit(p) ==
  /\ procs[p].op = "bulk_reject" /\ procs[p].pc = "br_commit"
  /\ Commit(p, "ok")
  /\ UNCHANGED hist

\* ---------------------------------------------------------------- the five transactions together
\* The row lock the next statement of p's transaction asks for (none: the empty set).
Wants(p) ==
  LET pc == procs[p].pc
  IN CASE pc \in {"lock_sub", "r_lock_sub"} ->
            IF SubRow(db, procs[p].arg).present THEN {<<"sub", procs[p].arg>>} ELSE {}
       [] pc = "lock_user" ->
            IF UserRow(db, procs[p].sub.user_id).present
            THEN {<<"user", procs[p].sub.user_id>>} ELSE {}
       [] pc \in {"upsert", "b_upsert"} -> {<<"setting", "tasksApproved">>}
       [] pc \in {"r_upsert", "br_upsert"} -> {<<"setting", "tasksRejected">>}
       [] pc \in {"b_lock_rows", "br_lock_rows"} ->
            IF procs[p].todo = {} THEN {} ELSE {<<"sub", Min(procs[p].todo)>>}
       [] pc = "b_next_row" ->
            IF procs[p].idx > Len(procs[p].rows) THEN {}
            ELSE IF UserRow(db, procs[p].rows[procs[p].idx].user_id).present
                 THEN {<<"user", procs[p].rows[procs[p].idx].user_id>>} ELSE {}
       [] pc = "v_lock_referee" ->
            IF UserRow(db, procs[p].arg).present THEN {<<"user", procs[p].arg>>} ELSE {}
       [] pc = "v_lock_referrer" ->
            IF UserRow(db, procs[p].usr.referred_by).present
            THEN {<<"user", procs[p].usr.referred_by>>} ELSE {}
       [] OTHER -> {}

\* p's transaction waits for a row lock that q's transaction holds.
WaitsFor(p, q) == p # q /\ \E row \in Wants(p) : locks[row] = q

\* Registered, unverified accounts, each referred by another account or by none
\* (/start stores any other id, so two accounts can have referred each other), and
\* pending submissions.
InitLocks ==
  /\ InitCommon
  /\ \E owner \in [SubIds -> Users], referred_by \in [Users -> Users \cup {NoUser}] :
       /\ \A u \in Users : referred_by[u] # u
       /\ db = [users |-> [u \in Users |-> [NewUser EXCEPT !.referred_by = referred_by[u]]],
                tasks |-> [t \in TaskIds |-> [present |-> TRUE, reward |-> TaskReward(t)]],
                task_submissions |-> [s \in SubIds |->
                   [present |-> TRUE, id |-> s, user_id |-> owner[s],
                    task_id |-> Min(TaskIds), task_reward |-> TaskReward(Min(TaskIds)),
                    status |-> "pending", reviewed_by |-> 0, reviewed_at |-> 0]],
                completed_tasks |-> {},
                referrals |-> {},
                bot_settings |-> InitSettings,
                withdrawal_requests |-> <<>>,
                user_activity_log |-> {}]

NextLocks ==
  \E p \in Procs :
    \/ \E s \in SubIds : CallApprove(p, s)
    \/ ApproveLockSub(p)
    \/ ApproveLockUser(p)
    \/ ApproveUpdateSub(p)
    \/ ApproveCredit(p)
    \/ ApproveInsertCompleted(p)
    \/ ApproveGetSetting(p)
    \/ ApproveUpsertCounter(p)
    \/ ApproveCommit(p)
    \/ \E s \in SubIds : CallReject(p, s, AdminId)
    \/ RejectLockSub(p)
    \/ RejectUpdateSub(p)
    \/ RejectGetSetting(p)
    \/ RejectUpsertCounter(p)
    \/ RejectCommit(p)
    \/ CallBulk(p)
    \/ BulkScan(p)
    \/ BulkLockRow(p)
    \/ BulkLockUser(p)
    \/ BulkUpdateSub(p)
    \/ BulkCredit(p)
    \/ BulkInsertCompleted(p)
    \/ BulkGetSetting(p)
    \/ BulkUpsertCounter(p)
    \/ BulkCommit(p)
    \/ CallBulkReject(p, AdminId)
    \/ BulkRejectScan(p)
    \/ BulkRejectLockRow(p)
    \/ BulkRejectUpdateSub(p)
    \/ BulkRejectGetSetting(p)
    \/ BulkRejectUpsertCounter(p)
    \/ BulkRejectCommit(p)
    \/ \E b \in Users : CallVerify(p, b)
    \/ VerifyLockReferee(p)
    \/ VerifyCommitAlready(p)
    \/ VerifyMark(p)
    \/ VerifyLockReferrer(p)
    \/ VerifyGetSetting(p)
    \/ VerifyCredit(p)
    \/ VerifyInsertReferral(p)
    \/ VerifyCommit(p)
    \/ TxFault(p)

SpecLocks == InitLocks /\ [][NextLocks]_vars

\* ---------------------------------------------------------------- claims on SpecLocks
\* C11: no reachable state has two transactions each waiting for a row lock the
\* other holds.
C11_NoLockCycle ==
  \A p, q \in Procs : ~(WaitsFor(p, q) /\ WaitsFor(q, p))

\* ---------------------------------------------------------------- the review transactions over time
\* Date.now() advances between statements, up to MaxNow.
MaxNow == 3

Tick ==
  /\ now < MaxNow
  /\ now' = now + 1
  /\ UNCHANGED <<db, locks, procs, pendingTasks, hist>>

NextReview ==
  \/ Tick
  \/ \E p \in Procs :
       \/ \E s \in SubIds \cup {NoSub} : CallApprove(p, s)
       \/ ApproveLockSub(p)
       \/ ApproveLockUser(p)
       \/ ApproveUpdateSub(p)
       \/ ApproveCredit(p)
       \/ ApproveInsertCompleted(p)
       \/ ApproveGetSetting(p)
       \/ ApproveUpsertCounter(p)
       \/ ApproveCommit(p)
       \/ \E s \in SubIds \cup {NoSub}, reviewedBy \in Admins : CallReject(p, s, reviewedBy)
       \/ RejectLockSub(p)
       \/ RejectUpdateSub(p)
       \/ RejectGetSetting(p)
       \/ RejectUpsertCounter(p)
       \/ RejectCommit(p)
       \/ CallBulk(p)
       \/ BulkScan(p)
       \/ BulkLockRow(p)
       \/ BulkLockUser(p)
       \/ BulkUpdateSub(p)
       \/ BulkCredit(p)
       \/ BulkInsertCompleted(p)
       \/ BulkGetSetting(p)
       \/ BulkUpsertCounter(p)
       \/ BulkCommit(p)
       \/ \E reviewedBy \in Admins : CallBulkReject(p, reviewedBy)
       \/ BulkRejectScan(p)
       \/ BulkRejectLockRow(p)
       \/ BulkRejectUpdateSub(p)
       \/ BulkRejectGetSetting(p)
       \/ BulkRejectUpsertCounter(p)
       \/ BulkRejectCommit(p)
       \/ TxFault(p)

SpecReview == InitApprove /\ [][NextReview]_vars

\* ---------------------------------------------------------------- claims on SpecReview
\* C12: a step changes a submission's row only when its status is pending, and then
\* only to approved or rejected; the status, reviewer and review timestamp of an
\* approved or rejected submission never change again.
C12_StatusTerminal ==
  [][\A s \in SubIds :
       LET old == db.task_submissions[s]
           new == db'.task_submissions[s]
       IN new # old => /\ old.status = "pending"
                       /\ new.status \in {"approved", "rejected"}
    ]_vars

\* A submission was approved at one time by one admin, and at a later time a
\* rejectSubmission on it by another admin has finished with 'Submission not
\* pending': the row still shows the approval.
C12_Witness ==
  \E s \in SubIds, p, q \in Procs :
    /\ db.task_submissions[s].status = "approved"
    /\ db.task_submissions[s].reviewed_by = AdminId
    /\ db.task_submissions[s].reviewed_at < now
    /\ procs[p].op = "reject" /\ procs[p].arg = s /\ procs[p].by = OtherAdminId
    /\ procs[p].res = "InvalidState"
    /\ procs[q].op = "approve" /\ procs[q].arg = s /\ procs[q].res = "ok"

\* C20: the COMMIT of a rejectSubmission call on a pending submission leaves the
\* submission rejected and tasksRejected larger by one, and changes no account
\* balance and no completed-task record.
C20_RejectFrame ==
  [][\A p \in Procs :
       (procs[p].op = "reject" /\ procs[p].pc = "r_commit" /\ procs'[p].res = "ok") =>
         /\ db.task_submissions[procs[p].arg].status = "pending"
         /\ db'.task_submissions[procs[p].arg].status = "rejected"
         /\ ParseIntOr0(db'.bot_settings["tasksRejected"])
              = ParseIntOr0(db.bot_settings["tasksRejected"]) + 1
         /\ \A u \in Users : db'.users[u].balance = db.users[u].balance
         /\ db'.completed_tasks = db.completed_tasks
    ]_vars

\* ---------------------------------------------------------------- withdrawal review
\* getLatestPendingWithdrawal: SELECT ... WHERE user_id = $1 AND status = 'pending'
\* ORDER BY requested_at DESC LIMIT 1. The ids of the rows it can return: with equal
\* requested_at the order is the server's choice.
getLatestPendingWithdrawal(u) ==
  LET pend == {i \in 1..Len(db.withdrawal_requests) :
                 /\ db.withdrawal_requests[i].user_id = u
                 /\ db.withdrawal_requests[i].status = "pending"}
  IN {i \in pend : \A j \in pend : db.withdrawal_requests[j].requested_at
                                     <= db.withdrawal_requests[i].requested_at}

\* updateWithdrawalStatus: UPDATE withdrawal_requests SET status = $1, reviewed_at = $2,
\* reviewed_by = $3 WHERE id = $4
updateWithdrawalStatus(d, withdrawalId, status, reviewedBy) ==
  [d EXCEPT !.withdrawal_requests[withdrawalId] =
     [@ EXCEPT !.status = status, !.reviewed_at = now, !.reviewed_by = reviewedBy]]

\* isAdminId(adminId)
isAdminId(id) == id \in Admins

\* handleAdminWithdrawConfirm(adminId, targetId, ...): if (!isAdminId(adminId)) return
CallWithdrawConfirm(p, adminId, targetId) ==
  /\ procs[p].pc = "idle"
  /\ procs' = [procs EXCEPT
       ![p].op = "withdraw_confirm", ![p].by = adminId, ![p].arg = targetId,
       ![p].pc = IF isAdminId(adminId) THEN "wc_get" ELSE "done",
       ![p].res = IF isAdminId(adminId) THEN "none" ELSE "NotAuthorized"]
  /\ UNCHANGED <<db, locks, now, pendingTasks, hist>>

\* const withdrawal = await db.getLatestPendingWithdrawal(targetId); if (!withdrawal) return
WithdrawConfirmGet(p) ==
  /\ procs[p].op = "withdraw_confirm" /\ procs[p].pc = "wc_get"
  /\ IF getLatestPendingWithdrawal(procs[p].arg) = {}
     THEN procs' = [procs EXCEPT ![p].pc = "done", ![p].res = "NoPending"]
     ELSE \E id \in getLatestPendingWithdrawal(procs[p].arg) :
            procs' = [procs EXCEPT ![p].idx = id, ![p].pc = "wc_update"]
  /\ UNCHANGED <<db, locks, now, pendingTasks, hist>>

\* await db.updateWithdrawalStatus(withdrawal.id, 'approved', adminId); the messages
\* that follow change no state.
WithdrawConfirmUpdate(p) ==
  /\ procs[p].op = "withdraw_confirm" /\ procs[p].pc = "wc_update"
  /\ db' = updateWithdrawalStatus(db, procs[p].idx, "approved", procs[p].by)
  /\ procs' = [procs EXCEPT ![p].pc = "done", ![p].res = "ok"]
  /\ UNCHANGED <<locks, now, pendingTasks, hist>>

\* handleAdminWithdrawReject(adminId, targetId, chatId): if (!isAdminId(adminId)) return
CallWithdrawReject(p, adminId, targetId) ==
  /\ procs[p].pc = "idle"
  /\ procs' = [procs EXCEPT
       ![p].op = "withdraw_reject", ![p].by = adminId, ![p].arg = targetId,
       ![p].pc = IF isAdminId(adminId) THEN "wr_get" ELSE "done",
       ![p].res = IF isAdminId(adminId) THEN "none" ELSE "NotAuthorized"]
  /\ UNCHANGED <<db, locks, now, pendingTasks, hist>>

\* const withdrawal = await db.getLatestPendingWithdrawal(targetId); if (!withdrawal) return
WithdrawRejectGet(p) ==
  /\ procs[p].op = "withdraw_reject" /\ procs[p].pc = "wr_get"
  /\ IF getLatestPendingWithdrawal(procs[p].arg) = {}
     THEN procs' = [procs EXCEPT ![p].pc = "done", ![p].res = "NoPending"]
     ELSE \E id \in getLatestPendingWithdrawal(procs[p].arg) :
            procs' = [procs EXCEPT ![p].idx = id, ![p].pc = "wr_update"]
  /\ UNCHANGED <<db, locks, now, pendingTasks, hist>>

\* Faulty variant of WithdrawRejectUpdate: the rejection gives the held amount back.
WithdrawRejectUpdateRecredits(p) ==
  /\ procs[p].op = "withdraw_reject" /\ procs[p].pc = "wr_update"
  /\ db' = updateUser(updateWithdrawalStatus(db, procs[p].idx, "rejected", procs[p].by),
                      procs[p].arg, "balance",
                      db.users[procs[p].arg].balance
                        + db.withdrawal_requests[procs[p].idx].amount)
  /\ procs' = [procs EXCEPT ![p].pc = "done", ![p].res = "ok"]
  /\ UNCHANGED <<locks, now, pendingTasks, hist>>

\* await db.updateWithdrawalStatus(withdrawal.id, 'rejected', adminId); the messages
\* that follow change no state.
WithdrawRejectUpdate(p) ==
  /\ procs[p].op = "withdraw_reject" /\ procs[p].pc = "wr_update"
  /\ db' = updateWithdrawalStatus(db, procs[p].idx, "rejected", procs[p].by)
  /\ procs' = [procs EXCEPT ![p].pc = "done", ![p].res = "ok"]
  /\ UNCHANGED <<locks, now, pendingTasks, hist>>

\* ---------------------------------------------------------------- /setminandmaxwithdrawal
\* The numerals an admin gives: (\d+) matches any unsigned numeral, 0 included.
LimitInputs == {0, 100}

\* setSetting: INSERT INTO bot_settings ... ON CONFLICT (key) DO UPDATE SET value = $2,
\* through the pool.
setSetting(d, key, value) == [d EXCEPT !.bot_settings[key] = SettingOf(value)]

CallSetLimits(p, minW, maxW) ==
  /\ procs[p].pc = "idle"
  /\ procs' = [procs EXCEPT ![p].op = "set_limits", ![p].pc = "sl_min",
                            ![p].amt = minW, ![p].count = maxW]
  /\ UNCHANGED <<db, locks, now, pendingTasks, hist>>

\* await db.setSetting('minWithdrawal', minW)
SetLimitsMin(p) ==
  /\ procs[p].op = "set_limits" /\ procs[p].pc = "sl_min"
  /\ locks[<<"setting", "minWithdrawal">>] = NoProc
  /\ db' = setSetting(db, "minWithdrawal", procs[p].amt)
  /\ procs' = [procs EXCEPT ![p].pc = "sl_max"]
  /\ UNCHANGED <<locks, now, pendingTasks, hist>>

\* await db.setSetting('maxWithdrawal', maxW)
SetLimitsMax(p) ==
  /\ procs[p].op = "set_limits" /\ procs[p].pc = "sl_max"
  /\ locks[<<"setting", "maxWithdrawal">>] = NoProc
  /\ db' = setSetting(db, "maxWithdrawal", procs[p].count)
  /\ procs' = [procs EXCEPT ![p].pc = "done", ![p].res = "ok"]
  /\ UNCHANGED <<locks, now, pendingTasks, hist>>

\* ---------------------------------------------------------------- the withdrawal handlers together
\* The amount of a request made, and debited, before the run starts.
HeldAmount == 60

\* The requests of the accounts 1..n that hold one, in id order.
RECURSIVE HeldRequests(_, _)
HeldRequests(held, n) ==
  IF n = 0 THEN <<>>
  ELSE LET prev == HeldRequests(held, n - 1)
       IN IF held[n]
          THEN Append(prev, [id |-> Len(prev) + 1, user_id |-> n, amount |-> HeldAmount,
                             status |-> "pending", requested_at |-> 1,
                             reviewed_at |-> 0, reviewed_by |-> 0])
          ELSE prev

\* Withdrawals are open; every account has a wallet; an account either holds
\* InitBalance or has a pending request of HeldAmount that was debited from it.
InitWithdrawals ==
  /\ InitCommon
  /\ \E held \in [Users -> BOOLEAN] :
       db = [users |-> [u \in Users |->
                [NewUser EXCEPT !.wallet = TRUE,
                                !.balance = IF held[u] THEN InitBalance - HeldAmount
                                            ELSE InitBalance]],
             tasks |-> [t \in TaskIds |-> NoTaskRow],
             task_submissions |-> [s \in SubIds |-> NoSubRow],
             completed_tasks |-> {},
             referrals |-> {},
             bot_settings |-> [InitSettings EXCEPT !["withdrawalOpen"] = SettingOf(1)],
             withdrawal_requests |-> HeldRequests(held, NumUsers),
             user_activity_log |-> {}]

NextWithdrawals ==
  \/ Tick
  \/ \E p \in Procs :
       \/ \E u \in Users, amount \in WithdrawInputs : CallRequestWithdraw(p, u, amount)
       \/ WithdrawGetOpen(p)
       \/ WithdrawGetMin(p)
       \/ WithdrawGetMax(p)
       \/ WithdrawGetUser(p)
       \/ WithdrawCreate(p)
       \/ WithdrawSendReview(p)
       \/ WithdrawSendUser(p)
       \/ WithdrawDebit(p)
       \/ \E adminId \in Admins \cup Users, u \in Users : CallWithdrawConfirm(p, adminId, u)
       \/ WithdrawConfirmGet(p)
       \/ WithdrawConfirmUpdate(p)
       \/ \E adminId \in Admins \cup Users, u \in Users : CallWithdrawReject(p, adminId, u)
       \/ WithdrawRejectGet(p)
       \/ WithdrawRejectUpdate(p)
       \/ \E minW, maxW \in LimitInputs : CallSetLimits(p, minW, maxW)
       \/ SetLimitsMin(p)
       \/ SetLimitsMax(p)

SpecWithdrawals == InitWithdrawals /\ [][NextWithdrawals]_vars

\* ---------------------------------------------------------------- claims on SpecWithdrawals
\* C13: once a withdrawal request's status is approved or rejected, no step changes
\* its status.
C13_WithdrawalStatusTerminal ==
  [][\A i \in 1..Len(db.withdrawal_requests) :
       db.withdrawal_requests[i].status # "pending"
         => db'.withdrawal_requests[i].status = db.withdrawal_requests[i].status
    ]_vars

\* C17: when /requestwithdraw compares the amount with the limits, an amount below
\* the configured minWithdrawal (as the handler read it) or above the configured
\* maxWithdrawal ends the attempt with the out-of-range answer, and the step creates
\* no request row and changes no balance.
C17_BoundsEnforced ==
  [][\A p \in Procs :
       ( /\ procs[p].op = "withdraw" /\ procs[p].pc = "w_get_max"
         /\ procs'[p].pc # "w_get_max"
         /\ \/ procs[p].amt < procs[p].lo.value
            \/ procs[p].amt > db.bot_settings["maxWithdrawal"].value )
       => /\ procs'[p].pc = "done" /\ procs'[p].res = "OutOfRange"
          /\ db' = db
    ]_vars

\* The request rows other than row id are the same in d and e, and row id differs at
\* most in status, reviewer and review timestamp.
OnlyReviewOf(d, e, id) ==
  /\ Len(e.withdrawal_requests) = Len(d.withdrawal_requests)
  /\ \A i \in 1..Len(d.withdrawal_requests) :
       IF i = id
       THEN [e.withdrawal_requests[i] EXCEPT !.status = "", !.reviewed_at = 0, !.reviewed_by = 0]
            = [d.withdrawal_requests[i] EXCEPT !.status = "", !.reviewed_at = 0, !.reviewed_by = 0]
       ELSE e.withdrawal_requests[i] = d.withdrawal_requests[i]
  /\ [e EXCEPT !.withdrawal_requests = <<>>] = [d EXCEPT !.withdrawal_requests = <<>>]

\* C18: a step of handleAdminWithdrawConfirm or handleAdminWithdrawReject changes
\* nothing in the database but the status, reviewer and review timestamp of the
\* request it decides; every account balance is the same after the step as before.
C18_ReviewChangesOnlyRequest ==
  [][\A p \in Procs :
       (procs[p].op \in {"withdraw_confirm", "withdraw_reject"} /\ procs'[p] # procs[p]) =>
         /\ \A u \in Users : db'.users[u].balance = db.users[u].balance
         /\ IF procs[p].pc \in {"wc_update", "wr_update"}
            THEN /\ OnlyReviewOf(db, db', procs[p].idx)
                 /\ db'.withdrawal_requests[procs[p].idx].status
                      = IF procs[p].op = "withdraw_confirm" THEN "approved" ELSE "rejected"
            ELSE db' = db
    ]_vars

\* A request that was debited before has been rejected by an admin, and the
\* requester's balance is still the debited one.
C18_Witness ==
  \E p \in Procs :
    /\ procs[p].op = "withdraw_reject" /\ procs[p].res = "ok"
    /\ db.withdrawal_requests[procs[p].idx].status = "rejected"
    /\ db.withdrawal_requests[procs[p].idx].reviewed_by = procs[p].by
    /\ db.withdrawal_requests[procs[p].idx].user_id = procs[p].arg
    /\ db.users[procs[p].arg].balance = InitBalance - HeldAmount

\* ---------------------------------------------------------------- createUser, ensureUser
\* msg.from.username || ''
Usernames == {"", "ann"}

ChatTypes == {"private", "supergroup"}

\* new Date().toISOString().split('T')[0]; the clock counts half days.
Today == DateOf(now \div TwentyFourHours)

\* createUser: INSERT INTO users (...) VALUES ($1, $2, 0, '', FALSE, $3, $3, 0, ...,
\* $4, ...) ON CONFLICT (id) DO UPDATE SET username = EXCLUDED.username,
\* last_seen = EXCLUDED.last_seen. One statement, so the choice between the insert
\* and the update is atomic.
createUser(d, u, username) ==
  IF d.users[u].present
  THEN [d EXCEPT !.users[u].username = username, !.users[u].last_seen = now]
  ELSE [d EXCEPT !.users[u] =
          [NoUserRow EXCEPT !.present = TRUE, !.username = username,
                            !.registered_at = now, !.last_seen = now,
                            !.last_activity_date = Today]]

\* updateUser(userId, updates) with several fields: one UPDATE users SET f1 = $1,
\* f2 = $2, ... WHERE id = $n.
RECURSIVE updateUserAll(_, _, _)
updateUserAll(d, u, updates) ==
  IF updates = <<>> THEN d
  ELSE updateUserAll(updateUser(d, u, Head(updates)[1], Head(updates)[2]),
                     u, Tail(updates))

\* A variant of the streak rule that counts any later day as the next day.
StreakUpdatesAnyGap(user, today) ==
  IF ~user.last_activity_date.isNull
  THEN LET daysDiff == today.day - user.last_activity_date.day
           current == user.current_streak + 1
       IN IF daysDiff >= 1
          THEN << <<"current_streak", current>>,
                  <<"longest_streak",
                    IF current > user.longest_streak THEN current
                    ELSE user.longest_streak>> >>
          ELSE <<>>
  ELSE << <<"current_streak", 1>>, <<"longest_streak", 1>> >>

\* if (updateActivity) { ... streak ... }: the streak fields ensureUser puts into
\* updates, from the row it read and today's date.
StreakUpdates(user, today) ==
  IF ~user.last_activity_date.isNull
  THEN LET daysDiff == today.day - user.last_activity_date.day
           current == user.current_streak + 1
       IN IF daysDiff = 1
          THEN << <<"current_streak", current>>,
                  <<"longest_streak",
                    IF current > user.longest_streak THEN current
                    ELSE user.longest_streak>> >>
          ELSE IF daysDiff > 1
               THEN << <<"current_streak", 1>> >>
               ELSE <<>>
  ELSE << <<"current_streak", 1>>, <<"longest_streak", 1>> >>

\* The message counters ensureUser puts into updates: the group or the bot
\* counter, then message_count, each the value read plus one; then activity_score
\* when the account is older than the clock's resolution.
CountUpdates(user, chatType) ==
  LET isGroup == chatType \in {"group", "supergroup"}
      message_count == user.message_count + 1
      hoursSinceRegistration == now - user.registered_at
  IN << IF isGroup
        THEN <<"group_message_count", user.group_message_count + 1>>
        ELSE <<"bot_message_count", user.bot_message_count + 1>>,
        <<"message_count", message_count>> >>
     \o (IF hoursSinceRegistration > 0
         THEN << <<"activity_score", ScoreOf(message_count, hoursSinceRegistration)>> >>
         ELSE <<>>)

\* The else branch of ensureUser up to the call of updateUser.
EnsureUpdates(user, username, updateActivity, chatType) ==
  << <<"last_seen", now>> >>
  \o (IF username # "" /\ username # user.username
      THEN << <<"username", username>> >> ELSE <<>>)
  \o (IF updateActivity
      THEN StreakUpdates(user, Today)
           \o << <<"last_activity_date", Today>> >>
           \o CountUpdates(user, chatType)
      ELSE <<>>)

CallEnsureUser(p, u, username, updateActivity, chatType) ==
  /\ procs[p].pc = "idle"
  /\ procs' = [procs EXCEPT ![p].op = "ensure", ![p].pc = "e_get", ![p].arg = u,
                            ![p].username = username,
                            ![p].updateActivity = updateActivity,
                            ![p].chatType = chatType]
  /\ UNCHANGED <<db, locks, now, pendingTasks, hist>>

CallCreateUser(p, u, username) ==
  /\ procs[p].pc = "idle"
  /\ procs' = [procs EXCEPT ![p].op = "create", ![p].pc = "e_create", ![p].arg = u,
                            ![p].username = username]
  /\ UNCHANGED <<db, locks, now, pendingTasks, hist>>

\* /start <param>: ensureUser(userId, username, false, {}, ...) comes first.
CallStart(p, u, username, startParam) ==
  /\ procs[p].pc = "idle"
  /\ procs' = [procs EXCEPT ![p].op = "start", ![p].pc = "e_get", ![p].arg = u,
                            ![p].username = username, ![p].startParam = startParam]
  /\ UNCHANGED <<db, locks, now, pendingTasks, hist>>

\* Where the caller goes on after ensureUser or createUser has returned:
\* if (startParam && startParam !== String(userId)) in /start.
AfterEnsure(p) ==
  IF procs[p].op = "start" /\ procs[p].startParam # NoUser
     /\ procs[p].startParam # procs[p].arg
  THEN "s_get_user" ELSE "done"

\* let user = await getUser(userId); then the synchronous code up to the next await.
EnsureGet(p) ==
  /\ procs[p].op \in {"ensure", "start"} /\ procs[p].pc = "e_get"
  /\ LET user == UserRow(db, procs[p].arg)
     IN procs' = [procs EXCEPT
          ![p].usr = user,
          ![p].pc = IF user.present THEN "e_update" ELSE "e_create",
          ![p].updates = IF user.present
                         THEN EnsureUpdates(user, procs[p].username,
                                            procs[p].updateActivity, procs[p].chatType)
                         ELSE <<>>]
  /\ UNCHANGED <<db, locks, now, pendingTasks, hist>>

\* A variant of createUser's statement that sets every column ON CONFLICT.
EnsureCreateResets(p) ==
  /\ procs[p].op \in {"ensure", "start", "create"} /\ procs[p].pc = "e_create"
  /\ RowUnlocked(procs[p].arg)
  /\ db' = createUser([db EXCEPT !.users[procs[p].arg] = NoUserRow],
                      procs[p].arg, procs[p].username)
  /\ procs' = [procs EXCEPT ![p].pc = AfterEnsure(p),
                            ![p].res = IF AfterEnsure(p) = "done" THEN "ok" ELSE "none"]
  /\ UNCHANGED <<locks, now, pendingTasks, hist>>

\* user = await createUser(userId, username)
EnsureCreate(p) ==
  /\ procs[p].op \in {"ensure", "start", "create"} /\ procs[p].pc = "e_create"
  /\ RowUnlocked(procs[p].arg)
  /\ db' = createUser(db, procs[p].arg, procs[p].username)
  /\ procs' = [procs EXCEPT ![p].pc = AfterEnsure(p),
                            ![p].res = IF AfterEnsure(p) = "done" THEN "ok" ELSE "none"]
  /\ UNCHANGED <<locks, now, pendingTasks, hist>>

\* A variant of EnsureUpdate that writes back the whole row ensureUser read, with
\* the updates on it.
EnsureUpdateWholeRow(p) ==
  /\ procs[p].op \in {"ensure", "start"} /\ procs[p].pc = "e_update"
  /\ RowUnlocked(procs[p].arg)
  /\ db' = updateUserAll([db EXCEPT !.users[procs[p].arg] = procs[p].usr],
                         procs[p].arg, procs[p].updates)
  /\ procs' = [procs EXCEPT ![p].pc = AfterEnsure(p),
                            ![p].res = IF AfterEnsure(p) = "done" THEN "ok" ELSE "none"]
  /\ UNCHANGED <<locks, now, pendingTasks, hist>>

\* user = await updateUser(userId, updates)
EnsureUpdate(p) ==
  /\ procs[p].op \in {"ensure", "start"} /\ procs[p].pc = "e_update"
  /\ RowUnlocked(procs[p].arg)
  /\ db' = updateUserAll(db, procs[p].arg, procs[p].updates)
  /\ procs' = [procs EXCEPT ![p].pc = AfterEnsure(p),
                            ![p].res = IF AfterEnsure(p) = "done" THEN "ok" ELSE "none"]
  /\ UNCHANGED <<locks, now, pendingTasks, hist>>

\* const user = await db.getUser(userId); if (!user.referred_by) ...
StartGetUser(p) ==
  /\ procs[p].op = "start" /\ procs[p].pc = "s_get_user"
  /\ LET user == UserRow(db, procs[p].arg)
     IN procs' = [procs EXCEPT
          ![p].usr = user,
          ![p].pc = IF user.referred_by = NoUser THEN "s_set_referrer" ELSE "done",
          ![p].res = IF user.referred_by = NoUser THEN "none" ELSE "ok"]
  /\ UNCHANGED <<db, locks, now, pendingTasks, hist>>

\* await db.updateUser(userId, { referred_by: startParam })
StartSetReferrer(p) ==
  /\ procs[p].op = "start" /\ procs[p].pc = "s_set_referrer"
  /\ RowUnlocked(procs[p].arg)
  /\ db' = updateUser(db, procs[p].arg, "referred_by", procs[p].startParam)
  /\ procs' = [procs EXCEPT ![p].pc = "done", ![p].res = "ok"]
  /\ UNCHANGED <<locks, now, pendingTasks, hist>>

\* Ids a /start link can carry: no parameter, an account's id, another Telegram id.
StartParams == {NoUser} \cup Users \cup Admins

\* Accounts that do not exist yet, and accounts registered earlier with a message
\* counted, a streak, and a last activity date up to today (or none).
InitActivity ==
  /\ InitCommon
  /\ \E exists \in [Users -> BOOLEAN],
        last \in {NullDate, DateOf(-1), DateOf(0), DateOf(1)}, streak \in {1, 2} :
       db = [users |-> [u \in Users |->
                IF exists[u]
                THEN [NewUser EXCEPT !.balance = InitBalance, !.wallet = TRUE,
                                     !.message_count = 1, !.bot_message_count = 1,
                                     !.current_streak = IF last.isNull THEN 0 ELSE streak,
                                     !.longest_streak = IF last.isNull THEN 0 ELSE 2,
                                     !.last_activity_date = last]
                ELSE NoUserRow],
             tasks |-> [t \in TaskIds |-> NoTaskRow],
             task_submissions |-> [s \in SubIds |-> NoSubRow],
             completed_tasks |-> {},
             referrals |-> {},
             bot_settings |-> InitSettings,
             withdrawal_requests |-> <<>>,
             user_activity_log |-> {}]

NextActivity ==
  \/ Tick
  \/ \E p \in Procs :
       \/ \E u \in Users, username \in Usernames, chatType \in ChatTypes :
            CallEnsureUser(p, u, username, TRUE, chatType)
       \/ \E u \in Users, username \in Usernames : CallCreateUser(p, u, username)
       \/ \E u \in Users, startParam \in StartParams : CallStart(p, u, "", startParam)
       \/ EnsureGet(p)
       \/ EnsureCreate(p)
       \/ EnsureUpdate(p)
       \/ StartGetUser(p)
       \/ StartSetReferrer(p)

SpecActivity == InitActivity /\ [][NextActivity]_vars

\* ---------------------------------------------------------------- claims on SpecActivity
\* C14: once an account's referred_by is set, no step changes it.
C14_ReferredByImmutable ==
  [][\A u \in Users :
       db.users[u].referred_by # NoUser
         => db'.users[u].referred_by = db.users[u].referred_by
    ]_vars

\* The completed ensureUser calls with updateActivity on account u, from chats of
\* the given types.
TouchesDone(u, types) ==
  {p \in Procs : /\ procs[p].op = "ensure" /\ procs[p].pc = "done"
                 /\ procs[p].arg = u /\ procs[p].updateActivity
                 /\ procs[p].chatType \in types}

\* C15: for an account that existed before the calls (it held one counted bot
\* message), message_count is that one plus the number of completed ensureUser calls
\* with touchActivity, and the bot and group counters count the calls of their kind.
C15_EveryTouchCounted ==
  \A u \in Users :
    (db.users[u].present /\ db.users[u].registered_at = 0) =>
      /\ db.users[u].message_count = 1 + Cardinality(TouchesDone(u, ChatTypes))
      /\ db.users[u].bot_message_count = 1 + Cardinality(TouchesDone(u, {"private"}))
      /\ db.users[u].group_message_count
           = Cardinality(TouchesDone(u, {"group", "supergroup"}))

\* The same row but for the two columns createUser sets on a conflict.
SameButNameAndSeen(old, new) ==
  [new EXCEPT !.username = "", !.last_seen = 0]
    = [old EXCEPT !.username = "", !.last_seen = 0]

\* C16: a createUser statement (called directly, or by ensureUser after it found no
\* row) succeeds and leaves the id's row present; when the row existed before the
\* statement, its balance, verified, referred_by, wallet, counters and every other
\* column but username and last_seen are as before; no other row changes.
C16_CreateIsUpsert ==
  [][\A p \in Procs :
       (procs[p].pc = "e_create" /\ procs'[p] # procs[p]) =>
         LET u == procs[p].arg
         IN /\ db'.users[u].present
            /\ procs'[p].res # "error"
            /\ db.users[u].present => SameButNameAndSeen(db.users[u], db'.users[u])
            /\ \A v \in Users \ {u} : db'.users[v] = db.users[v]
    ]_vars

\* Two ensureUser calls both found no row for the same id and both have run
\* createUser; the second one met the row of the first.
C16_Witness ==
  \E p, q \in Procs :
    /\ p # q /\ procs[p].arg = procs[q].arg
    /\ procs[p].op = "ensure" /\ procs[q].op = "ensure"
    /\ procs[p].pc = "done" /\ procs[q].pc = "done"
    /\ ~procs[p].usr.present /\ ~procs[q].usr.present
    /\ procs[p].updates = <<>> /\ procs[q].updates = <<>>
    /\ db.users[procs[p].arg].present
    /\ db.users[procs[p].arg].username = procs[q].username
    /\ procs[p].username # procs[q].username

\* The value updates gives to field, or dflt when it gives none.
RECURSIVE Updated(_, _, _)
Updated(updates, field, dflt) ==
  IF updates = <<>> THEN dflt
  ELSE IF Head(updates)[1] = field THEN Head(updates)[2]
       ELSE Updated(Tail(updates), field, dflt)

\* C19: when an ensureUser call with touchActivity writes its update, and the
\* account's streak columns are still the ones the call read, with a last activity
\* date: the new last_activity_date is the call's today; with a gap of one day
\* current_streak grows by one and longest_streak does not decrease; with a gap of
\* more than one day current_streak is 1; with no gap neither streak changes.
C19_StreakLaw ==
  [][\A p \in Procs :
       ( /\ procs[p].op = "ensure" /\ procs[p].pc = "e_update" /\ procs'[p].pc = "done"
         /\ procs[p].updateActivity
         /\ db.users[procs[p].arg].current_streak = procs[p].usr.current_streak
         /\ db.users[procs[p].arg].longest_streak = procs[p].usr.longest_streak
         /\ db.users[procs[p].arg].last_activity_date = procs[p].usr.last_activity_date
         /\ ~db.users[procs[p].arg].last_activity_date.isNull )
       => LET old == db.users[procs[p].arg]
              new == db'.users[procs[p].arg]
              today == Updated(procs[p].updates, "last_activity_date", NullDate)
              gap == today.day - old.last_activity_date.day
          IN /\ ~today.isNull /\ new.last_activity_date = today
             /\ gap = 1 => /\ new.current_streak = old.current_streak + 1
                           /\ new.longest_streak >= old.longest_streak
             /\ gap > 1 => new.current_streak = 1
             /\ gap = 0 => /\ new.current_streak = old.current_streak
                           /\ new.longest_streak = old.longest_streak
    ]_vars

\* An account last active yesterday with a streak of 2 has been touched today: its
\* streak and its longest streak are 3.
C19_Witness ==
  \E p \in Procs :
    /\ procs[p].op = "ensure" /\ procs[p].pc = "done" /\ procs[p].updateActivity
    /\ procs[p].usr.last_activity_date = DateOf(Today.day - 1)
    /\ procs[p].usr.current_streak = 2
    /\ db.users[procs[p].arg].current_streak = 3
    /\ db.users[procs[p].arg].longest_streak = 3
    /\ db.users[procs[p].arg].last_activity_date = Today

\* ---------------------------------------------------------------- updateUser called alone
\* The updates objects of the calls: none, a wallet, a balance.
UpdateInputs == {<<>>, << <<"wallet", TRUE>> >>, << <<"balance", 5>> >>}

CallUpdateUser(p, u, updates) ==
  /\ procs[p].pc = "idle"
  /\ procs' = [procs EXCEPT ![p].op = "update", ![p].pc = "u_query", ![p].arg = u,
                            ![p].updates = updates]
  /\ UNCHANGED <<db, locks, now, pendingTasks, hist>>

\* if (fields.length === 0) return null; ... UPDATE users SET ... WHERE id = $n
\* RETURNING *; return result.rows[0]: the row, or undefined when no row matched.
UpdateUserQuery(p) ==
  /\ procs[p].op = "update" /\ procs[p].pc = "u_query"
  /\ procs[p].updates # <<>> => RowUnlocked(procs[p].arg)
  /\ db' = updateUserAll(db, procs[p].arg, procs[p].updates)
  /\ procs' = [procs EXCEPT
       ![p].pc = "done",
       ![p].res = IF procs[p].updates = <<>> THEN "null"
                  ELSE IF UserRow(db, procs[p].arg).present THEN "ok"
                  ELSE "undefined"]
  /\ UNCHANGED <<locks, now, pendingTasks, hist>>

NextUsers ==
  \E p \in Procs :
    \/ \E u \in Users, updates \in UpdateInputs : CallUpdateUser(p, u, updates)
    \/ UpdateUserQuery(p)
    \/ \E u \in Users, username \in Usernames : CallCreateUser(p, u, username)
    \/ EnsureCreate(p)

SpecUsers == InitActivity /\ [][NextUsers]_vars

\* C21: an updateUser call with fields to set, on an id that has no account row,
\* ends with a NotFound error and leaves the database as it was.
C21_UpdateMissingIsNotFound ==
  [][\A p \in Procs :
       ( /\ procs[p].op = "update" /\ procs[p].pc = "u_query" /\ procs'[p].pc = "done"
         /\ procs[p].updates # <<>>
         /\ ~db.users[procs[p].arg].present )
       => /\ procs'[p].res = "NotFound"
          /\ db' = db
    ]_vars

\* ---------------------------------------------------------------- handleBonus alone
\* Accounts that never claimed the bonus or claimed it half a day before the start.
InitBonus ==
  /\ InitCommon
  /\ \E last \in [Users -> {0, 1}] :
       db = [users |-> [u \in Users |->
                [NewUser EXCEPT !.balance = InitBalance, !.last_bonus_claim = last[u]]],
             tasks |-> [t \in TaskIds |-> NoTaskRow],
             task_submissions |-> [s \in SubIds |-> NoSubRow],
             completed_tasks |-> {},
             referrals |-> {},
             bot_settings |-> InitSettings,
             withdrawal_requests |-> <<>>,
             user_activity_log |-> {}]

NextBonus ==
  \/ Tick
  \/ \E p \in Procs :
       \/ \E u \in Users : CallBonus(p, u)
       \/ BonusGetUser(p)
       \/ BonusGetSetting(p)
       \/ BonusUpdate(p)

SpecBonus == InitBonus /\ [][NextBonus]_vars

HoursPerTick == 24 \div TwentyFourHours

\* getUserReferrals: SELECT referred_id FROM referrals WHERE referrer_id = $1
getUserReferrals(d, u) == {r[2] : r \in {x \in d.referrals : x[1] = u}}

\* getUserCompletedTasks: SELECT task_id FROM completed_tasks WHERE user_id = $1
getUserCompletedTasks(d, u) == {c.task_id : c \in {x \in d.completed_tasks : x.user_id = u}}

\* The rows of a result set one after the other (by ascending id).
RECURSIVE RowsOf(_)
RowsOf(S) ==
  IF S = {} THEN <<>>
  ELSE LET m == CHOOSE x \in S : \A y \in S : x <= y
       IN <<m>> \o RowsOf(S \ {m})

\* SELECT COUNT(*) FROM user_activity_log WHERE user_id = $1 AND timestamp >= $2
\* [AND activity_type IN types]; a log entry stands for count rows alike.
RECURSIVE CountRows(_)
CountRows(S) ==
  IF S = {} THEN 0
  ELSE LET e == CHOOSE x \in S : TRUE
       IN e.count + CountRows(S \ {e})

LogRows(d, u, startTime, types) ==
  {e \in d.user_activity_log :
     e.user_id = u /\ e.timestamp >= startTime /\ e.activity_type \in types}

ActivityTypes == {"message", "command", "photo", "video", "document"}

\* analyzeReferralPattern, the points a referral's account row gives: message
\* count, activity score (messages an hour, against 0.5 and 0.1), wallet, verified,
\* hours since registration (against 24 and 1).
ReferralRowScore(refUser) ==
  LET messageCount == refUser.message_count
      activityScore == refUser.activity_score
      hoursSinceRegistration == (now - refUser.registered_at) * HoursPerTick
  IN (IF messageCount >= 10 THEN 3
      ELSE IF messageCount >= 5 THEN 2
      ELSE IF messageCount >= 1 THEN 1 ELSE 0)
     + (IF 10 * activityScore.num > 5 * HoursPerTick * activityScore.den THEN 2
        ELSE IF 10 * activityScore.num > 1 * HoursPerTick * activityScore.den THEN 1
        ELSE 0)
     + (IF refUser.wallet THEN 2 ELSE 0)
     + (IF refUser.verified THEN 2 ELSE 0)
     + (IF hoursSinceRegistration > 24 THEN 2
        ELSE IF hoursSinceRegistration > 1 THEN 1 ELSE 0)

\* A variant of the cutoff that counts every referral as real.
IsRealReferralAny(score) == score >= 0

\* if (score >= 5) realCount++; else suspiciousCount++
IsRealReferral(score) == score >= 5

\* What analyzeReferralPattern returns for no referral at all.
NoReferralAnalysis ==
  [NoReturn EXCEPT !.realRefs = 0, !.suspiciousRefs = 0, !.score = 5, !.percentage = 1000]

\* What analyzeReferralPattern returns after the loop: the rating from the exact
\* percentage, the percentage rounded to one decimal.
ReferralAnalysis(realCount, suspiciousCount) ==
  LET totalRefs == realCount + suspiciousCount
  IN [NoReturn EXCEPT
        !.realRefs = realCount,
        !.suspiciousRefs = suspiciousCount,
        !.score = IF 100 * realCount >= 80 * totalRefs THEN 5
                  ELSE IF 100 * realCount >= 60 * totalRefs THEN 4
                  ELSE IF 100 * realCount >= 40 * totalRefs THEN 3
                  ELSE IF 100 * realCount >= 20 * totalRefs THEN 2
                  ELSE 1,
        !.percentage = (2000 * realCount + totalRefs) \div (2 * totalRefs)]

Least(a, b) == IF a <= b THEN a ELSE b

\* tierScore is kept times ScoreScale, which makes every term below a whole number:
\* sevenths (activities a day), two-hundredths (referral quality), tenths (the
\* multiplier 0.7).
ScoreScale == 7 * 200 * 10

\* A variant of TierScore without the penalty for not being seen.
TierScoreNoPenalty(user, t, totalActivities, taskCount, referralQuality) ==
  LET daysSinceRegistration2 == t - user.registered_at
  IN Least(30 * ScoreScale, (totalActivities * 3 * ScoreScale) \div 7)
     + Least(15 * ScoreScale, (user.current_streak * 3 * ScoreScale) \div 2)
     + Least(20 * ScoreScale, taskCount * 4 * ScoreScale)
     + (referralQuality * 15 * ScoreScale) \div 1000
     + (IF user.verified THEN 10 * ScoreScale ELSE 0)
     + Least(10 * ScoreScale, (daysSinceRegistration2 * ScoreScale) \div 4)

\* updateEngagementTier, tierScore: activity, streak, tasks, referral quality,
\* verification, account age, then the penalty for not being seen; t is the call's
\* Date.now(), referralQuality is in tenths of a percent.
TierScore(user, t, totalActivities, taskCount, referralQuality) ==
  LET daysSinceRegistration2 == t - user.registered_at
      hoursSinceLastSeen == (t - user.last_seen) * HoursPerTick
      score ==
        Least(30 * ScoreScale, (totalActivities * 3 * ScoreScale) \div 7)
        + Least(15 * ScoreScale, (user.current_streak * 3 * ScoreScale) \div 2)
        + Least(20 * ScoreScale, taskCount * 4 * ScoreScale)
        + (referralQuality * 15 * ScoreScale) \div 1000
        + (IF user.verified THEN 10 * ScoreScale ELSE 0)
        + Least(10 * ScoreScale, (daysSinceRegistration2 * ScoreScale) \div 4)
  IN IF hoursSinceLastSeen > 168 THEN (score * 5) \div 10
     ELSE IF hoursSinceLastSeen > 72 THEN (score * 7) \div 10
     ELSE score

\* A variant of the tier thresholds with strict comparisons.
TierOfStrict(tierScore) ==
  IF tierScore > 70 * ScoreScale THEN "Elite"
  ELSE IF tierScore > 50 * ScoreScale THEN "Active"
  ELSE IF tierScore > 30 * ScoreScale THEN "Regular"
  ELSE IF tierScore > 15 * ScoreScale THEN "Dormant"
  ELSE "Ghost"

\* if (tierScore >= 70) tier = 'Elite' ... else tier = 'Ghost'
TierOf(tierScore) ==
  IF tierScore >= 70 * ScoreScale THEN "Elite"
  ELSE IF tierScore >= 50 * ScoreScale THEN "Active"
  ELSE IF tierScore >= 30 * ScoreScale THEN "Regular"
  ELSE IF tierScore >= 15 * ScoreScale THEN "Dormant"
  ELSE "Ghost"

\* return { isFake: true, isBot: true, confidence: 100, reasons: ['User not found'] }
UserNotFound == [NoReturn EXCEPT !.isFake = TRUE, !.isBot = TRUE, !.confidence = 100]

\* detectBotOrFakeUser, checks 1 to 10 and the result; t is the call's Date.now(),
\* spam_score is kept in halves.
DetectResult(user, t, totalActivities, kinds, completedCount, refAnalysis) ==
  LET hoursSinceRegistration == (t - user.registered_at) * HoursPerTick
      fakeScore ==
        (IF user.message_count = 0 /\ hoursSinceRegistration > 24 THEN 30 ELSE 0)
        + (IF user.username = "" THEN 40 ELSE 0)
        + (IF 100 * user.activity_score.num < HoursPerTick * user.activity_score.den
              /\ hoursSinceRegistration > 24
           THEN 20 ELSE 0)
        + (IF totalActivities = 0 /\ hoursSinceRegistration > 24 THEN 25 ELSE 0)
      botScore ==
        (IF ~user.verified /\ hoursSinceRegistration > 7 * 24 THEN 10 ELSE 0)
        + (IF ~user.wallet /\ hoursSinceRegistration > 3 * 24 THEN 10 ELSE 0)
        + (IF kinds = 1 /\ totalActivities > 20 THEN 15 ELSE 0)
        + (IF completedCount = 0 /\ hoursSinceRegistration > 7 * 24 THEN 10 ELSE 0)
        + (IF user.spam_score > 2 * 20 THEN 20 ELSE 0)
        + (IF refAnalysis.percentage < 200
              /\ refAnalysis.realRefs + refAnalysis.suspiciousRefs > 5
           THEN 15 ELSE 0)
      totalScore == IF botScore >= fakeScore THEN botScore ELSE fakeScore
  IN [NoReturn EXCEPT
        !.isBot = botScore > 50,
        !.isFake = fakeScore > 50,
        !.botScore = botScore,
        !.fakeScore = fakeScore,
        !.confidence = Least(100, totalScore)]

\* ---------------------------------------------------------------- scoring: the calls
\* A number of milliseconds in units of the clock.
Ticks(ms) == ms \div (HoursPerTick * 60 * 60 * 1000)

CallAnalyze(p, u) ==
  /\ procs[p].pc = "idle"
  /\ procs' = [procs EXCEPT ![p].op = "analyze", ![p].pc = "a_referrals", ![p].arg = u]
  /\ UNCHANGED <<db, locks, now, pendingTasks, hist>>

\* The call proc when analyzeReferralPattern returns refAnalysis to it: a direct
\* call is over; updateEngagementTier goes on to getUserCompletedTasks;
\* detectBotOrFakeUser runs check 10 and returns.
AnalyzeReturn(proc, refAnalysis) ==
  CASE proc.op = "tier" ->
         [proc EXCEPT !.ret = refAnalysis, !.pc = "t_completed"]
    [] proc.op = "detect" ->
         [proc EXCEPT
            !.ret = DetectResult(proc.usr, proc.idx, proc.totalActivities,
                                 proc.kinds, proc.count, refAnalysis),
            !.pc = "done", !.res = "ok"]
    [] OTHER ->
         [proc EXCEPT !.ret = refAnalysis, !.pc = "done", !.res = "ok"]

\* The call of p after one referral has been counted: the next referral, or the
\* end of the loop and the return.
AnalyzeNext(p, realCount, suspiciousCount) ==
  LET proc == [procs[p] EXCEPT !.referrals = Tail(@), !.realCount = realCount,
                               !.suspiciousCount = suspiciousCount]
  IN IF proc.referrals # <<>>
     THEN [proc EXCEPT !.pc = "a_get_user"]
     ELSE AnalyzeReturn(proc, ReferralAnalysis(realCount, suspiciousCount))

\* const referrals = await getUserReferrals(userId); if (referrals.length === 0) return
AnalyzeGetReferrals(p) ==
  /\ procs[p].op \in {"analyze", "tier", "detect"} /\ procs[p].pc = "a_referrals"
  /\ LET referrals == RowsOf(getUserReferrals(db, procs[p].arg))
     IN procs' = [procs EXCEPT ![p] =
          IF referrals = <<>>
          THEN AnalyzeReturn(procs[p], NoReferralAnalysis)
          ELSE [procs[p] EXCEPT !.referrals = referrals, !.realCount = 0,
                                !.suspiciousCount = 0, !.pc = "a_get_user"]]
  /\ UNCHANGED <<db, locks, now, pendingTasks, hist>>

\* const refUser = await getUser(refId); if (!refUser) { suspiciousCount++; continue }
\* ... the score from the row
AnalyzeGetUser(p) ==
  /\ procs[p].op \in {"analyze", "tier", "detect"} /\ procs[p].pc = "a_get_user"
  /\ LET refUser == UserRow(db, Head(procs[p].referrals))
     IN procs' = [procs EXCEPT ![p] =
          IF ~refUser.present
          THEN AnalyzeNext(p, procs[p].realCount, procs[p].suspiciousCount + 1)
          ELSE [procs[p] EXCEPT !.score = ReferralRowScore(refUser),
                                !.pc = "a_completed"]]
  /\ UNCHANGED <<db, locks, now, pendingTasks, hist>>

\* const completedTasks = await getUserCompletedTasks(refId);
\* if (completedTasks.length > 0) score += 2; if (score >= 5) realCount++ ...
AnalyzeGetCompleted(p) ==
  /\ procs[p].op \in {"analyze", "tier", "detect"} /\ procs[p].pc = "a_completed"
  /\ LET completedTasks == getUserCompletedTasks(db, Head(procs[p].referrals))
         score == procs[p].score + (IF completedTasks # {} THEN 2 ELSE 0)
     IN procs' = [procs EXCEPT ![p] =
          IF IsRealReferral(score)
          THEN AnalyzeNext(p, procs[p].realCount + 1, procs[p].suspiciousCount)
          ELSE AnalyzeNext(p, procs[p].realCount, procs[p].suspiciousCount + 1)]
  /\ UNCHANGED <<db, locks, now, pendingTasks, hist>>

CallTier(p, u) ==
  /\ procs[p].pc = "idle"
  /\ procs' = [procs EXCEPT ![p].op = "tier", ![p].pc = "t_get_user", ![p].arg = u]
  /\ UNCHANGED <<db, locks, now, pendingTasks, hist>>

\* const user = await getUser(userId); if (!user) return null; const now = Date.now()
TierGetUser(p) ==
  /\ procs[p].op = "tier" /\ procs[p].pc = "t_get_user"
  /\ LET user == UserRow(db, procs[p].arg)
     IN procs' = [procs EXCEPT
          ![p].usr = user, ![p].idx = now,
          ![p].pc = IF user.present THEN "t_stats" ELSE "done",
          ![p].res = IF user.present THEN "none" ELSE "null"]
  /\ UNCHANGED <<db, locks, now, pendingTasks, hist>>

\* getUserActivityStats(userId, 7 days): the rows of the last 7 days by type;
\* totalActivities is the sum of the counts.
TierGetStats(p) ==
  /\ procs[p].op = "tier" /\ procs[p].pc = "t_stats"
  /\ LET rows == LogRows(db, procs[p].arg, now - Ticks(7 * 24 * 60 * 60 * 1000),
                         ActivityTypes)
     IN procs' = [procs EXCEPT ![p].totalActivities = CountRows(rows),
                               ![p].pc = "a_referrals"]
  /\ UNCHANGED <<db, locks, now, pendingTasks, hist>>

\* const completedTasks = await getUserCompletedTasks(userId); tierScore; tier
TierGetCompleted(p) ==
  /\ procs[p].op = "tier" /\ procs[p].pc = "t_completed"
  /\ LET taskCount == Cardinality(getUserCompletedTasks(db, procs[p].arg))
         tierScore == TierScore(procs[p].usr, procs[p].idx, procs[p].totalActivities,
                                taskCount, procs[p].ret.percentage)
     IN procs' = [procs EXCEPT ![p].ret.tierScore = tierScore,
                               ![p].ret.tier = TierOf(tierScore),
                               ![p].pc = "t_update"]
  /\ UNCHANGED <<db, locks, now, pendingTasks, hist>>

\* await updateUser(userId, { engagement_tier: tier, tier_updated_at: now });
\* return { tier, tierScore }
TierUpdate(p) ==
  /\ procs[p].op = "tier" /\ procs[p].pc = "t_update"
  /\ RowUnlocked(procs[p].arg)
  /\ db' = updateUser(updateUser(db, procs[p].arg, "engagement_tier", procs[p].ret.tier),
                      procs[p].arg, "tier_updated_at", procs[p].idx)
  /\ procs' = [procs EXCEPT ![p].pc = "done", ![p].res = "ok"]
  /\ UNCHANGED <<locks, now, pendingTasks, hist>>

CallDetect(p, u) ==
  /\ procs[p].pc = "idle"
  /\ procs' = [procs EXCEPT ![p].op = "detect", ![p].pc = "d_get_user", ![p].arg = u]
  /\ UNCHANGED <<db, locks, now, pendingTasks, hist>>

\* const user = await getUser(userId); if (!user) return { isFake: true, ... }
DetectGetUser(p) ==
  /\ procs[p].op = "detect" /\ procs[p].pc = "d_get_user"
  /\ LET user == UserRow(db, procs[p].arg)
     IN procs' = [procs EXCEPT
          ![p].usr = user, ![p].idx = now,
          ![p].ret = IF user.present THEN NoReturn ELSE UserNotFound,
          ![p].pc = IF user.present THEN "d_stats" ELSE "done",
          ![p].res = IF user.present THEN "none" ELSE "ok"]
  /\ UNCHANGED <<db, locks, now, pendingTasks, hist>>

\* const activityStats = await getUserActivityStats(userId, 7 days): one row for
\* each activity type, totalActivities the sum of the counts.
DetectGetStats(p) ==
  /\ procs[p].op = "detect" /\ procs[p].pc = "d_stats"
  /\ LET rows == LogRows(db, procs[p].arg, now - Ticks(7 * 24 * 60 * 60 * 1000),
                         ActivityTypes)
     IN procs' = [procs EXCEPT
          ![p].totalActivities = CountRows(rows),
          ![p].kinds = Cardinality({e.activity_type : e \in rows}),
          ![p].pc = "d_completed"]
  /\ UNCHANGED <<db, locks, now, pendingTasks, hist>>

\* const completedTasks = await getUserCompletedTasks(userId)
DetectGetCompleted(p) ==
  /\ procs[p].op = "detect" /\ procs[p].pc = "d_completed"
  /\ procs' = [procs EXCEPT
       ![p].count = Cardinality(getUserCompletedTasks(db, procs[p].arg)),
       ![p].pc = "a_referrals"]
  /\ UNCHANGED <<db, locks, now, pendingTasks, hist>>

\* checkSpamBehavior: const now = Date.now()
CallSpam(p, u) ==
  /\ procs[p].pc = "idle"
  /\ procs' = [procs EXCEPT ![p].op = "spam", ![p].pc = "c_minute", ![p].arg = u,
                            ![p].idx = now]
  /\ UNCHANGED <<db, locks, now, pendingTasks, hist>>

\* messagesLastMinute: COUNT(*) of the messages and commands since now - 60000
SpamCountMinute(p) ==
  /\ procs[p].op = "spam" /\ procs[p].pc = "c_minute"
  /\ procs' = [procs EXCEPT
       ![p].count = CountRows(LogRows(db, procs[p].arg, procs[p].idx - Ticks(60000),
                                      {"message", "command"})),
       ![p].pc = "c_five"]
  /\ UNCHANGED <<db, locks, now, pendingTasks, hist>>

\* messagesLastFiveMin: COUNT(*) since now - 300000;
\* isSpamming = messagesLastMinute > 10 || messagesLastFiveMin > 30
SpamCountFive(p) ==
  /\ procs[p].op = "spam" /\ procs[p].pc = "c_five"
  /\ LET messagesLastFiveMin ==
           CountRows(LogRows(db, procs[p].arg, procs[p].idx - Ticks(300000),
                             {"message", "command"}))
         isSpamming == procs[p].count > 10 \/ messagesLastFiveMin > 30
     IN procs' = [procs EXCEPT
          ![p].totalActivities = messagesLastFiveMin,
          ![p].ret = [NoReturn EXCEPT !.isSpamming = isSpamming],
          ![p].pc = IF isSpamming THEN "c_throttle" ELSE "c_get_user"]
  /\ UNCHANGED <<db, locks, now, pendingTasks, hist>>

\* await updateUser(userId, { spam_score: messagesLastMinute * 2 +
\* messagesLastFiveMin * 0.5, is_throttled: true, throttled_until: now + 300000,
\* last_spam_check: now }); spam_score is kept in halves.
SpamThrottle(p) ==
  /\ procs[p].op = "spam" /\ procs[p].pc = "c_throttle"
  /\ RowUnlocked(procs[p].arg)
  /\ db' = updateUserAll(db, procs[p].arg,
             << <<"spam_score", 4 * procs[p].count + procs[p].totalActivities>>,
                <<"is_throttled", TRUE>>,
                <<"throttled_until", procs[p].idx + Ticks(300000)>>,
                <<"last_spam_check", procs[p].idx>> >>)
  /\ procs' = [procs EXCEPT ![p].pc = "done", ![p].res = "ok"]
  /\ UNCHANGED <<locks, now, pendingTasks, hist>>

\* const user = await getUser(userId);
\* const newSpamScore = Math.max(0, (user.spam_score || 0) - 1): user.spam_score of
\* null is a TypeError.
SpamGetUser(p) ==
  /\ procs[p].op = "spam" /\ procs[p].pc = "c_get_user"
  /\ LET user == UserRow(db, procs[p].arg)
     IN procs' = [procs EXCEPT
          ![p].usr = user,
          ![p].pc = IF user.present THEN "c_decay" ELSE "done",
          ![p].res = IF user.present THEN "none" ELSE "TypeError"]
  /\ UNCHANGED <<db, locks, now, pendingTasks, hist>>

\* await updateUser(userId, { spam_score: newSpamScore, last_spam_check: now })
SpamDecay(p) ==
  /\ procs[p].op = "spam" /\ procs[p].pc = "c_decay"
  /\ RowUnlocked(procs[p].arg)
  /\ db' = updateUserAll(db, procs[p].arg,
             << <<"spam_score", IF procs[p].usr.spam_score - 2 > 0
                                THEN procs[p].usr.spam_score - 2 ELSE 0>>,
                <<"last_spam_check", procs[p].idx>> >>)
  /\ procs' = [procs EXCEPT ![p].pc = "done", ![p].res = "ok"]
  /\ UNCHANGED <<locks, now, pendingTasks, hist>>

\* The account that is scored in the scoring specification, and its referrals.
Scored == Min(Users)

\* Account Scored (if it exists): registered today, a streak of 10, some logged
\* messages of today, seen today or 3.5 or 7.5 days ago. The other accounts: none,
\* or a weak one (registered this hour, nothing else), or a strong one (10 messages,
\* wallet, verified, a completed task); referred by Scored or not.
InitScoring ==
  /\ InitCommon
  /\ \E exists \in BOOLEAN, verified \in BOOLEAN, logged \in {0, 69, 70},
        idle \in {0, 7, 15}, kind \in [Users \ {Scored} -> {"none", "weak", "strong"}],
        referred \in BOOLEAN :
       db = [users |-> [u \in Users |->
                IF u = Scored
                THEN IF exists
                     THEN [NewUser EXCEPT !.username = "ann", !.verified = verified,
                                          !.registered_at = now, !.last_seen = now - idle,
                                          !.current_streak = 10, !.longest_streak = 10,
                                          !.last_activity_date = Today]
                     ELSE NoUserRow
                ELSE CASE kind[u] = "none" -> NoUserRow
                       [] kind[u] = "weak" ->
                            [NewUser EXCEPT !.registered_at = now, !.last_seen = now,
                                            !.last_activity_date = Today]
                       [] kind[u] = "strong" ->
                            [NewUser EXCEPT !.username = "bob", !.registered_at = now - 4,
                                            !.last_seen = now, !.message_count = 10,
                                            !.wallet = TRUE, !.verified = TRUE,
                                            !.last_activity_date = Today]],
             tasks |-> [t \in TaskIds |-> [present |-> TRUE, reward |-> TaskReward(t)]],
             task_submissions |-> [s \in SubIds |-> NoSubRow],
             completed_tasks |->
               {[user_id |-> u, task_id |-> Min(TaskIds), reward |-> TaskReward(Min(TaskIds))] :
                  u \in {v \in Users \ {Scored} : kind[v] = "strong"}},
             referrals |-> IF exists /\ referred
                           THEN {<<Scored, u>> : u \in {v \in Users \ {Scored} : kind[v] # "none"}}
                           ELSE {},
             bot_settings |-> InitSettings,
             withdrawal_requests |-> <<>>,
             user_activity_log |->
               IF exists /\ logged > 0
               THEN {[user_id |-> Scored, activity_type |-> "message",
                      timestamp |-> now, count |-> logged]}
               ELSE {}]

NextScoring ==
  \E p \in Procs :
    \/ \E u \in Users : CallAnalyze(p, u)
    \/ AnalyzeGetReferrals(p)
    \/ AnalyzeGetUser(p)
    \/ AnalyzeGetCompleted(p)
    \/ \E u \in Users : CallTier(p, u)
    \/ TierGetUser(p)
    \/ TierGetStats(p)
    \/ TierGetCompleted(p)
    \/ TierUpdate(p)
    \/ \E u \in Users : CallDetect(p, u)
    \/ DetectGetUser(p)
    \/ DetectGetStats(p)
    \/ DetectGetCompleted(p)
    \/ \E u \in Users : CallSpam(p, u)
    \/ SpamCountMinute(p)
    \/ SpamCountFive(p)
    \/ SpamThrottle(p)
    \/ SpamGetUser(p)
    \/ SpamDecay(p)

SpecScoring == InitScoring /\ [][NextScoring]_vars

\* ---------------------------------------------------------------- claims on SpecScoring
\* The account row has nothing that analyzeReferralPattern gives points for.
WeakReferral(u) ==
  /\ db.users[u].present
  /\ db.users[u].message_count = 0 /\ db.users[u].activity_score.num = 0
  /\ ~db.users[u].wallet /\ ~db.users[u].verified
  /\ (now - db.users[u].registered_at) * HoursPerTick < 1
  /\ getUserCompletedTasks(db, u) = {}

\* C23: a finished analyzeReferralPattern call on an account with no referral has
\* returned percentage 100 and five stars; on an account whose only referral has no
\* message, activity score 0, no wallet, no verification, an age under one hour and
\* no completed task, the referral's score is below 5 and the call has returned 0
\* real, 1 suspicious, 0 percent.
C23_ReferralAnalysis ==
  \A p \in Procs :
    (procs[p].op = "analyze" /\ procs[p].pc = "done") =>
      LET referrals == getUserReferrals(db, procs[p].arg)
      IN /\ referrals = {} => /\ procs[p].ret.percentage = 1000
                              /\ procs[p].ret.score = 5
         /\ \A r \in referrals :
              (referrals = {r} /\ r \in Users /\ WeakReferral(r)) =>
                /\ procs[p].score < 5
                /\ procs[p].ret.realRefs = 0
                /\ procs[p].ret.suspiciousRefs = 1
                /\ procs[p].ret.percentage = 0

\* An analysis of an account with one weak referral has finished.
C23_Witness ==
  \E p \in Procs, r \in Users :
    /\ procs[p].op = "analyze" /\ procs[p].pc = "done"
    /\ getUserReferrals(db, procs[p].arg) = {r} /\ WeakReferral(r)
    /\ procs[p].ret.suspiciousRefs = 1

\* C24: when updateEngagementTier writes the tier, the tier it returns is Elite
\* for a score of 70 or more, Active from 50, Regular from 30, Dormant from 15 and
\* Ghost below, and the tier stored on the account is the tier returned.
C24_TierThresholds ==
  [][\A p \in Procs :
       (procs[p].op = "tier" /\ procs[p].pc = "t_update" /\ procs'[p].pc = "done") =>
         LET tierScore == procs'[p].ret.tierScore
             tier == procs'[p].ret.tier
         IN /\ tierScore >= 70 * ScoreScale => tier = "Elite"
            /\ (50 * ScoreScale <= tierScore /\ tierScore < 70 * ScoreScale) => tier = "Active"
            /\ (30 * ScoreScale <= tierScore /\ tierScore < 50 * ScoreScale) => tier = "Regular"
            /\ (15 * ScoreScale <= tierScore /\ tierScore < 30 * ScoreScale) => tier = "Dormant"
            /\ tierScore < 15 * ScoreScale => tier = "Ghost"
            /\ db'.users[procs[p].arg].engagement_tier = tier
    ]_vars

\* An account that scores exactly 70 has been given the tier Elite.
C24_Witness ==
  \E p \in Procs :
    /\ procs[p].op = "tier" /\ procs[p].pc = "done" /\ procs[p].res = "ok"
    /\ procs[p].ret.tierScore = 70 * ScoreScale
    /\ procs[p].ret.tier = "Elite"
    /\ db.users[procs[p].arg].engagement_tier = "Elite"

\* C25: a call of analyzeReferralPattern, detectBotOrFakeUser, updateEngagementTier
\* or checkSpamBehavior for an id with no account row does not end with an error.
C25_ScoringTotal ==
  \A p \in Procs :
    ( /\ procs[p].op \in {"analyze", "detect", "tier", "spam"}
      /\ procs[p].pc = "done"
      /\ ~db.users[procs[p].arg].present )
    => procs[p].res \in {"ok", "null"}

\* ---------------------------------------------------------------- lock order of verifyUserAndReward
\* C26: when a verifyUserAndReward call that goes on to touch the referrer (the
\* referee is unverified and its referrer's account exists) takes the row lock of
\* the referee, it already holds the row lock of the referrer.
C26_ReferrerLockedFirst ==
  [][\A p \in Procs :
       LET b == procs[p].arg
           a == UserRow(db, b).referred_by
       IN ( /\ procs[p].op = "verify" /\ b \in Users
            /\ locks[<<"user", b>>] # p /\ locks'[<<"user", b>>] = p
            /\ ~db.users[b].verified
            /\ a \in Users /\ a # b /\ db.users[a].present )
          => locks[<<"user", a>>] = p
    ]_vars

\* ---------------------------------------------------------------- one payment for a pair
\* The tasks for which account u has an approved submission.
PaidTasks(u) ==
  {t \in TaskIds : \E s \in SubIds :
       /\ db.task_submissions[s].present /\ db.task_submissions[s].status = "approved"
       /\ db.task_submissions[s].user_id = u /\ db.task_submissions[s].task_id = t}

RECURSIVE SumTaskRewards(_)
SumTaskRewards(T) ==
  IF T = {} THEN 0
  ELSE LET t == CHOOSE x \in T : TRUE
       IN db.tasks[t].reward + SumTaskRewards(T \ {t})

\* Every (account, task) pair with an approved submission has exactly one
\* completed-task record.
OneRecordForPair ==
  \A u \in Users : \A t \in PaidTasks(u) :
    Cardinality({c \in db.completed_tasks : c.user_id = u /\ c.task_id = t}) = 1

\* C27: with approvals (single and bulk) the only credits to accounts that started
\* at 0, an account's balance is at most the sum of the rewards of the tasks it has
\* an approved submission for (each task counted once), and every such pair has
\* exactly one completed-task record.
C27_PairPaidOnce ==
  /\ \A u \in Users : db.users[u].balance <= SumTaskRewards(PaidTasks(u))
  /\ OneRecordForPair

\* ---------------------------------------------------------------- handleAdminTaskConfirm, handleAdminTaskReject
\* updateSubmissionStatus: UPDATE task_submissions SET status = $1, reviewed_at = $2,
\* reviewed_by = $3 WHERE id = $4, through the pool.
updateSubmissionStatus(d, submissionId, status, reviewedBy) ==
  IF submissionId \in SubIds /\ d.task_submissions[submissionId].present
  THEN Apply(d, Write("sub_status", submissionId,
                      [status |-> status, reviewed_by |-> reviewedBy, reviewed_at |-> now]))
  ELSE d

\* markTaskCompleted(userId, taskId, reward): INSERT INTO completed_tasks ...
\* ON CONFLICT (user_id, task_id) DO NOTHING, through the pool.
markTaskCompleted(d, userId, taskId, reward) ==
  Apply(d, Write("completed", <<userId, taskId>>, reward))

\* handleAdminTaskConfirm(adminId, targetId, submissionId, ...):
\* if (!isAdminId(adminId)) return
CallTaskConfirm(p, adminId, submissionId) ==
  /\ procs[p].pc = "idle"
  /\ procs' = [procs EXCEPT
       ![p].op = "task_confirm", ![p].by = adminId, ![p].arg = submissionId,
       ![p].pc = IF isAdminId(adminId) THEN "tc_get_sub" ELSE "done",
       ![p].res = IF isAdminId(adminId) THEN "none" ELSE "NotAuthorized"]
  /\ UNCHANGED <<db, locks, now, pendingTasks, hist>>

\* const submission = await db.getSubmissionById(submissionId);
\* if (!submission || submission.status !== 'pending') return
TaskConfirmGetSub(p) ==
  /\ procs[p].op = "task_confirm" /\ procs[p].pc = "tc_get_sub"
  /\ LET submission == SubRow(db, procs[p].arg)
         open == submission.present /\ submission.status = "pending"
     IN procs' = [procs EXCEPT
          ![p].sub = submission,
          ![p].pc = IF open THEN "tc_get_user" ELSE "done",
          ![p].res = IF open THEN "none" ELSE "AlreadyProcessed"]
  /\ UNCHANGED <<db, locks, now, pendingTasks, hist>>

\* const user = await db.getUser(actualUserId);
\* const newBalance = parseFloat(user.balance) + reward
TaskConfirmGetUser(p) ==
  /\ procs[p].op = "task_confirm" /\ procs[p].pc = "tc_get_user"
  /\ LET user == UserRow(db, procs[p].sub.user_id)
     IN procs' = [procs EXCEPT
          ![p].usr = user,
          ![p].amt = user.balance + procs[p].sub.task_reward,
          ![p].pc = IF user.present THEN "tc_update_user" ELSE "done",
          ![p].res = IF user.present THEN "none" ELSE "TypeError"]
  /\ UNCHANGED <<db, locks, now, pendingTasks, hist>>

\* await db.updateUser(actualUserId, { balance: newBalance })
TaskConfirmUpdateUser(p) ==
  /\ procs[p].op = "task_confirm" /\ procs[p].pc = "tc_update_user"
  /\ RowUnlocked(procs[p].sub.user_id)
  /\ db' = updateUser(db, procs[p].sub.user_id, "balance", procs[p].amt)
  /\ hist' = [hist EXCEPT ![procs[p].sub.user_id] = @ + procs[p].sub.task_reward]
  /\ procs' = [procs EXCEPT ![p].pc = "tc_update_status"]
  /\ UNCHANGED <<locks, now, pendingTasks>>

\* await db.updateSubmissionStatus(submission.id, 'approved', adminId)
TaskConfirmUpdateStatus(p) ==
  /\ procs[p].op = "task_confirm" /\ procs[p].pc = "tc_update_status"
  /\ locks[<<"sub", procs[p].sub.id>>] = NoProc
  /\ db' = updateSubmissionStatus(db, procs[p].sub.id, "approved", procs[p].by)
  /\ procs' = [procs EXCEPT ![p].pc = "tc_mark_completed"]
  /\ UNCHANGED <<locks, now, pendingTasks, hist>>

\* await db.markTaskCompleted(actualUserId, submission.task_id, reward); the
\* messages that follow change nothing.
TaskConfirmMarkCompleted(p) ==
  /\ procs[p].op = "task_confirm" /\ procs[p].pc = "tc_mark_completed"
  /\ db' = markTaskCompleted(db, procs[p].sub.user_id, procs[p].sub.task_id,
                             procs[p].sub.task_reward)
  /\ procs' = [procs EXCEPT ![p].pc = "done", ![p].res = "ok"]
  /\ UNCHANGED <<locks, now, pendingTasks, hist>>

\* handleAdminTaskReject(adminId, targetId, submissionId, ...)
CallTaskReject(p, adminId, submissionId) ==
  /\ procs[p].pc = "idle"
  /\ procs' = [procs EXCEPT
       ![p].op = "task_reject", ![p].by = adminId, ![p].arg = submissionId,
       ![p].pc = IF isAdminId(adminId) THEN "tr_get_sub" ELSE "done",
       ![p].res = IF isAdminId(adminId) THEN "none" ELSE "NotAuthorized"]
  /\ UNCHANGED <<db, locks, now, pendingTasks, hist>>

\* const submission = await db.getSubmissionById(submissionId);
\* if (!submission || submission.status !== 'pending') return
TaskRejectGetSub(p) ==
  /\ procs[p].op = "task_reject" /\ procs[p].pc = "tr_get_sub"
  /\ LET submission == SubRow(db, procs[p].arg)
         open == submission.present /\ submission.status = "pending"
     IN procs' = [procs EXCEPT
          ![p].sub = submission,
          ![p].pc = IF open THEN "tr_update_status" ELSE "done",
          ![p].res = IF open THEN "none" ELSE "AlreadyProcessed"]
  /\ UNCHANGED <<db, locks, now, pendingTasks, hist>>

\* await db.updateSubmissionStatus(submission.id, 'rejected', adminId); the
\* messages that follow change nothing.
TaskRejectUpdateStatus(p) ==
  /\ procs[p].op = "task_reject" /\ procs[p].pc = "tr_update_status"
  /\ locks[<<"sub", procs[p].sub.id>>] = NoProc
  /\ db' = updateSubmissionStatus(db, procs[p].sub.id, "rejected", procs[p].by)
  /\ procs' = [procs EXCEPT ![p].pc = "done", ![p].res = "ok"]
  /\ UNCHANGED <<locks, now, pendingTasks, hist>>

NextConfirm ==
  \E p \in Procs :
    \/ \E adminId \in Admins \cup Users, s \in SubIds \cup {NoSub} :
         CallTaskConfirm(p, adminId, s)
    \/ TaskConfirmGetSub(p)
    \/ TaskConfirmGetUser(p)
    \/ TaskConfirmUpdateUser(p)
    \/ TaskConfirmUpdateStatus(p)
    \/ TaskConfirmMarkCompleted(p)
    \/ \E adminId \in Admins \cup Users, s \in SubIds \cup {NoSub} :
         CallTaskReject(p, adminId, s)
    \/ TaskRejectGetSub(p)
    \/ TaskRejectUpdateStatus(p)

SpecConfirm == InitApprove /\ [][NextConfirm]_vars

\* C28: once the confirm and reject callbacks have all returned, an account that
\* started at 0 holds at most the rewards of its approved submissions, each once:
\* a submission is credited at most once, and not at all if it ends up rejected.
C28_ConfirmCreditsOnce ==
  Quiescent =>
    \A u \in Users : db.users[u].balance <= SumReward(db, ApprovedSubsOf(u))

\* ---------------------------------------------------------------- /requestwithdraw alone
NextRequests ==
  \E p \in Procs :
    \/ \E u \in Users, amount \in WithdrawInputs : CallRequestWithdraw(p, u, amount)
    \/ WithdrawGetOpen(p)
    \/ WithdrawGetMin(p)
    \/ WithdrawGetMax(p)
    \/ WithdrawGetUser(p)
    \/ WithdrawCreate(p)
    \/ WithdrawSendReview(p)
    \/ WithdrawSendUser(p)
    \/ WithdrawDebit(p)

SpecRequests == InitLedger /\ [][NextRequests]_vars

\* The sum of the amounts of the withdrawal requests in the sequence reqs.
RECURSIVE SumAmounts(_)
SumAmounts(reqs) ==
  IF reqs = <<>> THEN 0 ELSE Head(reqs).amount + SumAmounts(Tail(reqs))

\* C29: under concurrent /requestwithdraw handlers the amounts of the requests
\* created for an account never add up to more than the balance it held before
\* them, and once the handlers have returned, every message having been sent, the
\* balance is lower by exactly that sum.
C29_NoOverdraw ==
  \A u \in Users :
    /\ SumAmounts(RequestsOf(u)) <= InitBalance
    /\ ( /\ Quiescent
         /\ \A p \in Procs : procs[p].res # "SendFailed" )
       => db.users[u].balance = InitBalance - SumAmounts(RequestsOf(u))

\* ---------------------------------------------------------------- the connection pool
\* const pool = new Pool({ connectionString, ssl }): no max and no connection
\* timeout are passed, so the pool has the driver's fixed number of connections and
\* a caller waits for one without limit. The model gives the pool as many
\* connections as there are concurrent handler calls.
PoolMax == NumProcs

\* The calls holding a client: from `await pool.connect()` to `client.release()`.
Clients == {p \in Procs : InTx(p)}

\* A connection of the pool is free.
PoolIdle == Cardinality(Clients) < PoolMax

\* approveSubmissionAtomic(submissionId, reviewedBy) is called.
CallApprovePooled(p, s) ==
  /\ procs[p].pc = "idle"
  /\ procs' = [procs EXCEPT ![p].op = "approve", ![p].pc = "connect", ![p].arg = s]
  /\ UNCHANGED <<db, locks, now, pendingTasks, hist>>

\* const client = await pool.connect(); await client.query('BEGIN')
ApproveConnect(p) ==
  /\ procs[p].op = "approve" /\ procs[p].pc = "connect"
  /\ PoolIdle
  /\ procs' = [procs EXCEPT ![p].pc = "lock_sub"]
  /\ UNCHANGED <<db, locks, now, pendingTasks, hist>>

\* const tasksApproved = await getSetting('tasksApproved'): pool.query takes a
\* connection of the pool for the statement, other than the caller's client.
ApproveGetSettingPooled(p) ==
  /\ PoolIdle
  /\ ApproveGetSetting(p)

\* The steps of call p other than its start and a failure of one of its statements.
ApproveStep(p) ==
  \/ ApproveConnect(p)
  \/ ApproveLockSub(p)
  \/ ApproveLockUser(p)
  \/ ApproveUpdateSub(p)
  \/ ApproveCredit(p)
  \/ ApproveInsertCompleted(p)
  \/ ApproveGetSettingPooled(p)
  \/ ApproveUpsertCounter(p)
  \/ ApproveCommit(p)

NextPool ==
  \E p \in Procs :
    \/ \E s \in SubIds \cup {NoSub} : CallApprovePooled(p, s)
    \/ ApproveStep(p)
    \/ TxFault(p)

\* The database and the event loop carry out every statement that can proceed;
\* nothing obliges a statement to fail.
SpecPool ==
  /\ InitApprove
  /\ [][NextPool]_vars
  /\ \A p \in Procs : WF_vars(ApproveStep(p))

\* C30: every approveSubmissionAtomic call that was started eventually returns,
\* committed or rolled back, however many calls run at once.
C30_ApproveTerminates ==
  \A p \in Procs : (procs[p].op = "approve") ~> (procs[p].pc = "done")

\* ---------------------------------------------------------------- bulk approval over rows without an owner
\* Pending submissions some of whose owning accounts have no row in users. The
\* schema declares task_submissions.user_id REFERENCES users(id) ON DELETE CASCADE
\* inside CREATE TABLE IF NOT EXISTS, which leaves a table made without the
\* constraint as it is; approveAllPendingSubmissions tests for the missing row.
InitOrphans ==
  /\ InitCommon
  /\ \E owner \in [SubIds -> Users], task \in [SubIds -> TaskIds],
        exists \in [Users -> BOOLEAN] :
       db = [users |-> [u \in Users |-> IF exists[u] THEN NewUser ELSE NoUserRow],
             tasks |-> [t \in TaskIds |-> [present |-> TRUE, reward |-> TaskReward(t)]],
             task_submissions |-> [s \in SubIds |->
                [present |-> TRUE, id |-> s, user_id |-> owner[s], task_id |-> task[s],
                 task_reward |-> TaskReward(task[s]), status |-> "pending",
                 reviewed_by |-> 0, reviewed_at |-> 0]],
             completed_tasks |-> {},
             referrals |-> {},
             bot_settings |-> InitSettings,
             withdrawal_requests |-> <<>>,
             user_activity_log |-> {}]

SpecOrphans == InitOrphans /\ [][NextBulk]_vars

\* The locked rows of call p whose owning account exists.
OwnedRowIds(p) == {s \in RowIds(p) : db.users[db.task_submissions[s].user_id].present}

\* C31: the loop of approveAllPendingSubmissions passes over a row whose owner is
\* missing and goes on with the next row, writing and counting nothing; at COMMIT
\* such a row is still pending, every other locked row is approved and its reward
\* credited, and the returned count and the tasksApproved increment are the number
\* of the other rows.
C31_OrphanSkipped ==
  [][\A p \in Procs :
       /\ ( /\ procs[p].op = "bulk" /\ procs[p].pc = "b_next_row"
            /\ procs[p].idx <= Len(procs[p].rows)
            /\ ~db.users[procs[p].rows[procs[p].idx].user_id].present
            /\ procs'[p] # procs[p] /\ procs'[p].res # "Faulted" )
          => /\ procs'[p].pc = "b_next_row"
             /\ procs'[p].idx = procs[p].idx + 1
             /\ procs'[p].count = procs[p].count
             /\ procs'[p].writes = procs[p].writes
       /\ ( procs[p].op = "bulk" /\ procs[p].pc = "b_commit" /\ procs'[p].res = "ok" )
          => /\ \A s \in RowIds(p) \ OwnedRowIds(p) :
                  db'.task_submissions[s] = db.task_submissions[s]
             /\ \A s \in OwnedRowIds(p) : db'.task_submissions[s].status = "approved"
             /\ \A u \in Users :
                  db'.users[u].balance = db.users[u].balance
                    + SumReward(db, {s \in OwnedRowIds(p) :
                                       db.task_submissions[s].user_id = u})
             /\ procs'[p].count = Cardinality(OwnedRowIds(p))
             /\ ParseIntOr0(db'.bot_settings["tasksApproved"])
                  = ParseIntOr0(db.bot_settings["tasksApproved"])
                    + Cardinality(OwnedRowIds(p))
    ]_vars

\* A call has committed a batch holding a row without an owner, still pending, and
\* a row with one, approved and credited.
C31_Witness ==
  \E p \in Procs :
    /\ procs[p].op = "bulk" /\ procs[p].res = "ok" /\ procs[p].count = 1
    /\ \E s, t \in RowIds(p) :
         /\ ~db.users[db.task_submissions[s].user_id].present
         /\ db.task_submissions[s].status = "pending"
         /\ db.users[db.task_submissions[t].user_id].present
         /\ db.task_submissions[t].status = "approved"
         /\ db.users[db.task_submissions[t].user_id].balance
              = db.task_submissions[t].task_reward

\* ---------------------------------------------------------------- approvals one after another
\* No other call is running: the next call of a sequence may start.
Alone(p) == \A q \in Procs \ {p} : procs[q].pc \in {"idle", "done"}

NextSequence ==
  \E p \in Procs :
    \/ \E s \in SubIds : Alone(p) /\ CallApprove(p, s)
    \/ ApproveLockSub(p)
    \/ ApproveLockUser(p)
    \/ ApproveUpdateSub(p)
    \/ ApproveCredit(p)
    \/ ApproveInsertCompleted(p)
    \/ ApproveGetSetting(p)
    \/ ApproveUpsertCounter(p)
    \/ ApproveCommit(p)
    \/ Alone(p) /\ CallBulk(p)
    \/ BulkScan(p)
    \/ BulkLockRow(p)
    \/ BulkLockUser(p)
    \/ BulkUpdateSub(p)
    \/ BulkCredit(p)
    \/ BulkInsertCompleted(p)
    \/ BulkGetSetting(p)
    \/ BulkUpsertCounter(p)
    \/ BulkCommit(p)
    \/ TxFault(p)

SpecSequence == InitApprove /\ [][NextSequence]_vars

\* What the two ways of approving are compared on.
ReviewOutcome ==
  [statuses |-> [s \in SubIds |-> db.task_submissions[s].status],
   balances |-> [u \in Users |-> db.users[u].balance],
   completed |-> db.completed_tasks,
   tasksApproved |-> ParseIntOr0(db.bot_settings["tasksApproved"])]

\* The outcome in which every submission of the initial state, all of them pending,
\* has been approved once.
AllApprovedOutcome ==
  [statuses |-> [s \in SubIds |-> "approved"],
   balances |-> [u \in Users |->
                   SumReward(db, {s \in SubIds : db.task_submissions[s].user_id = u})],
   completed |-> {[user_id |-> db.task_submissions[s].user_id,
                   task_id |-> db.task_submissions[s].task_id,
                   reward |-> db.task_submissions[s].task_reward] : s \in SubIds},
   tasksApproved |-> NumSubs]

\* Every pending submission had a successful approveSubmissionAtomic call.
SinglesDone ==
  \A s \in SubIds :
    \E p \in Procs : procs[p].op = "approve" /\ procs[p].arg = s /\ procs[p].res = "ok"

\* C32: from one state with every submission pending, one successful
\* approveAllPendingSubmissions call, and successful approveSubmissionAtomic calls
\* on every pending submission one after another in either order, end with the same
\* submission statuses, balances, completed-task records and tasksApproved counter.
C32_BulkEqualsSingles ==
  /\ (\E p \in Procs : procs[p].op = "bulk" /\ procs[p].res = "ok")
       => ReviewOutcome = AllApprovedOutcome
  /\ SinglesDone => ReviewOutcome = AllApprovedOutcome

\* The single calls have approved two submissions of one account for one task, the
\* later-numbered submission first.
C32_Witness ==
  /\ SinglesDone
  /\ \E s, t \in SubIds :
       /\ s < t
       /\ db.task_submissions[s].user_id = db.task_submissions[t].user_id
       /\ db.task_submissions[s].task_id = db.task_submissions[t].task_id
       /\ Cardinality(db.completed_tasks) = 1
       /\ db.users[db.task_submissions[s].user_id].balance
            = 2 * db.task_submissions[s].task_reward
       /\ \E p, q \in Procs :
            /\ p < q /\ procs[p].arg = t /\ procs[q].arg = s
            /\ procs[p].res = "ok" /\ procs[q].res = "ok"

\* ---------------------------------------------------------------- verifyUserAndReward without a referrer row
\* C33: when the referee's referred_by names an account that has no row,
\* verifyUserAndReward goes from the referrer lookup straight to COMMIT, and the
\* COMMIT marks the referee verified, changes no balance and adds no referral edge.
C33_MissingReferrer ==
  [][\A p \in Procs :
       LET b == procs[p].arg
           a == procs[p].usr.referred_by
       IN ( /\ procs[p].op = "verify" /\ a # NoUser /\ ~UserRow(db, a).present )
          => /\ ( /\ procs[p].pc = "v_lock_referrer" /\ procs'[p] # procs[p]
                  /\ procs'[p].res # "Faulted" )
                => /\ procs'[p].pc = "v_commit"
                   /\ procs'[p].writes = procs[p].writes
             /\ ( procs[p].pc = "v_commit" /\ procs'[p].res = "ok" )
                => /\ ~db.users[b].verified
                   /\ db'.users[b].verified
                   /\ \A u \in Users : db'.users[u].balance = db.users[u].balance
                   /\ db'.referrals = db.referrals
    ]_vars

\* A call for a referee whose referrer has no row has committed: the referee is
\* verified, nobody was credited and there is no referral edge.
C33_Witness ==
  \E p \in Procs :
    /\ procs[p].op = "verify" /\ procs[p].pc = "done" /\ procs[p].res = "ok"
    /\ procs[p].usr.referred_by = MissingUser
    /\ db.users[procs[p].arg].verified
    /\ \A u \in Users : db.users[u].balance = 0
    /\ db.referrals = {}

\* ---------------------------------------------------------------- applyIdleDecay
\* 3 * 24 * 60 * 60 * 1000 and 7 * 24 * 60 * 60 * 1000, in ticks of the clock.
ThreeDays == 3 * TwentyFourHours

SevenDays == 7 * TwentyFourHours

\* parseFloat(user.activity_score || 0) * decayFactor, on the quotient kept as a pair:
\* 0.9 from 7 days without being seen, 0.95 from 3 days, else 1.
Decay(score, sinceLastSeen) ==
  IF sinceLastSeen >= SevenDays THEN ScoreOf(score.num * 9, score.den * 10)
  ELSE IF sinceLastSeen >= ThreeDays THEN ScoreOf(score.num * 19, score.den * 20)
  ELSE score

\* runMaintenanceTasks, from the 6-hour timer or from /maintenance, calls
\* applyIdleDecay: const now = Date.now().
CallDecay(p) ==
  /\ procs[p].pc = "idle"
  /\ procs' = [procs EXCEPT ![p].op = "decay", ![p].pc = "d_select", ![p].started = now]
  /\ UNCHANGED <<db, locks, now, pendingTasks, hist>>

\* SELECT id, activity_score, last_seen FROM users WHERE last_seen < $1 AND
\* (last_decay_applied IS NULL OR last_decay_applied < $2); with no rows the
\* function returns at once.
DecaySelect(p) ==
  /\ procs[p].op = "decay" /\ procs[p].pc = "d_select"
  /\ LET ids == RowsOf({u \in Users :
                   /\ db.users[u].present
                   /\ db.users[u].last_seen < procs[p].started - ThreeDays
                   /\ db.users[u].last_decay_applied
                        < procs[p].started - TwentyFourHours})
         users == [i \in 1..Len(ids) |->
                     [id |-> ids[i], activity_score |-> db.users[ids[i]].activity_score,
                      last_seen |-> db.users[ids[i]].last_seen]]
     IN procs' = [procs EXCEPT
          ![p].rows = users,
          ![p].pc = IF users = <<>> THEN "done" ELSE "d_update",
          ![p].res = IF users = <<>> THEN "ok" ELSE "none"]
  /\ UNCHANGED <<db, locks, now, pendingTasks, hist>>

\* for (const user of users): await updateUser(user.id, { activity_score: newScore,
\* last_decay_applied: now }); decayedCount++; after the last row the function returns.
DecayUpdate(p) ==
  /\ procs[p].op = "decay" /\ procs[p].pc = "d_update"
  /\ LET user == procs[p].rows[procs[p].idx]
         newScore == Decay(user.activity_score, procs[p].started - user.last_seen)
         last == procs[p].idx = Len(procs[p].rows)
     IN /\ RowUnlocked(user.id)
        /\ db' = updateUserAll(db, user.id, << <<"activity_score", newScore>>,
                                              <<"last_decay_applied", procs[p].started>> >>)
        /\ procs' = [procs EXCEPT
             ![p].idx = @ + 1, ![p].count = @ + 1,
             ![p].pc = IF last THEN "done" ELSE "d_update",
             ![p].res = IF last THEN "ok" ELSE "none"]
  /\ UNCHANGED <<locks, now, pendingTasks, hist>>

\* The activity score every account starts with.
InitScore == ScoreOf(10, 1)

\* Accounts last seen between 2.5 and 7 days ago, last decayed 12, 24 or 36 hours ago.
InitDecay ==
  /\ InitCommon
  /\ \E idle \in [Users -> {ThreeDays - 1, ThreeDays, SevenDays - 1, SevenDays}],
        ago \in [Users -> 1..3] :
       db = [users |-> [u \in Users |->
                [NewUser EXCEPT !.registered_at = now - 2 * SevenDays,
                                !.last_seen = now - idle[u],
                                !.activity_score = InitScore,
                                !.last_decay_applied = now - ago[u]]],
             tasks |-> [t \in TaskIds |-> NoTaskRow],
             task_submissions |-> [s \in SubIds |-> NoSubRow],
             completed_tasks |-> {},
             referrals |-> {},
             bot_settings |-> InitSettings,
             withdrawal_requests |-> <<>>,
             user_activity_log |-> {}]

NextDecay ==
  \/ Tick
  \/ \E p \in Procs :
       \/ CallDecay(p)
       \/ DecaySelect(p)
       \/ DecayUpdate(p)

SpecDecay == InitDecay /\ [][NextDecay]_vars

\* The quotient a is smaller than the quotient b.
Lower(a, b) == a.num * b.den < b.num * a.den

\* C34: a step lowers an account's activity score only when the account was last
\* seen at least 3 days ago and its last decay is at least 24 hours old, whether one
\* sweep runs or two at once.
C34_DecayOncePerDay ==
  [][\A u \in Users :
       Lower(db'.users[u].activity_score, db.users[u].activity_score)
         => /\ db.users[u].last_seen <= now - ThreeDays
            /\ db.users[u].last_decay_applied <= now - TwentyFourHours
    ]_vars

\* ---------------------------------------------------------------- detectBotOrFakeUser without a username
\* C35: every detectBotOrFakeUser call on an existing account whose username is
\* missing or empty returns isFake = true.
C35_NoUsernameIsFake ==
  \A p \in Procs :
    ( /\ procs[p].op = "detect" /\ procs[p].pc = "done" /\ procs[p].res = "ok"
      /\ procs[p].usr.present /\ procs[p].usr.username = "" )
    => procs[p].ret.isFake

\* ---------------------------------------------------------------- streaks from first contact on
\* The clock goes on for two more days than Tick allows.
LastTick == MaxNow + 2 * TwentyFourHours

TickDays ==
  /\ now < LastTick
  /\ now' = now + 1
  /\ UNCHANGED <<db, locks, procs, pendingTasks, hist>>

\* No account has a row yet.
InitStreak ==
  /\ InitCommon
  /\ db = [users |-> [u \in Users |-> NoUserRow],
           tasks |-> [t \in TaskIds |-> NoTaskRow],
           task_submissions |-> [s \in SubIds |-> NoSubRow],
           completed_tasks |-> {},
           referrals |-> {},
           bot_settings |-> InitSettings,
           withdrawal_requests |-> <<>>,
           user_activity_log |-> {}]

NextStreak ==
  \/ TickDays
  \/ \E p \in Procs :
       \/ \E u \in Users, username \in Usernames, updateActivity \in BOOLEAN :
            CallEnsureUser(p, u, username, updateActivity, "private")
       \/ EnsureGet(p)
       \/ EnsureCreate(p)
       \/ EnsureUpdate(p)

SpecStreak == InitStreak /\ [][NextStreak]_vars

\* C36: in every state reached by ensureUser calls, the first of which creates the
\* account through createUser, with or without the activity update, on any days,
\* every account's longest_streak is at least its current_streak.
C36_LongestAtLeastCurrent ==
  \A u \in Users : db.users[u].longest_streak >= db.users[u].current_streak

\* C37: no statement of an ensureUser call replaces a stored non-empty username of
\* its account with an empty one, in any interleaving of the calls.
C37_UsernameKept ==
  [][\A p \in Procs :
       ( /\ procs[p].op = "ensure" /\ procs'[p] # procs[p]
         /\ db.users[procs[p].arg].username # "" )
       => db'.users[procs[p].arg].username # ""
    ]_vars

\* ---------------------------------------------------------------- ensureUser beside a balance credit
NextContact ==
  \/ Tick
  \/ \E p \in Procs :
       \/ \E u \in Users, username \in Usernames, updateActivity \in BOOLEAN :
            CallEnsureUser(p, u, username, updateActivity, "private")
       \/ EnsureGet(p)
       \/ EnsureCreate(p)
       \/ EnsureUpdate(p)
       \/ \E u \in Users, amount \in AdminAmounts : CallAddBalance(p, u, amount)
       \/ AddBalanceGetUser(p)
       \/ AddBalanceUpdate(p)

SpecContact == InitActivity /\ [][NextContact]_vars

\* C38: a statement of an ensureUser call on an account that has a row leaves the
\* row's balance, wallet, verified flag and referred_by as they were just before
\* it, so that a credit committed since ensureUser read the row stays.
C38_EnsureFrame ==
  [][\A p \in Procs :
       ( /\ procs[p].op = "ensure" /\ procs'[p] # procs[p]
         /\ db.users[procs[p].arg].present )
       => LET old == db.users[procs[p].arg]
              new == db'.users[procs[p].arg]
          IN /\ new.balance = old.balance
             /\ new.wallet = old.wallet
             /\ new.verified = old.verified
             /\ new.referred_by = old.referred_by
    ]_vars

\* An ensureUser call with the activity update and an /addbalance on the same
\* account have both read the row before either wrote it, and both have written:
\* the row holds the credit and the counted message.
C38_Witness ==
  \E p, q \in Procs :
    /\ procs[p].op = "ensure" /\ procs[p].pc = "done" /\ procs[p].updateActivity
    /\ procs[p].usr.present /\ procs[p].usr.balance = InitBalance
    /\ procs[q].op = "addbalance" /\ procs[q].res = "ok"
    /\ procs[q].arg = procs[p].arg
    /\ procs[q].usr.message_count = procs[p].usr.message_count
    /\ db.users[procs[p].arg].message_count = procs[p].usr.message_count + 1
    /\ db.users[procs[p].arg].balance = InitBalance + procs[q].amt

\* ---------------------------------------------------------------- review buttons of withdrawal requests
\* bot.on('callback_query'), data "withdraw_confirm:<userId>:<amount>": the button of
\* the review message that /requestwithdraw sent for request r. The data carries the
\* requester's id and the amount; targetId = parts[1]. notified records which
\* message was pressed and is read by no statement of the handler.
PressWithdrawConfirm(p, adminId, r) ==
  /\ r \in 1..Len(db.withdrawal_requests)
  /\ procs[p].pc = "idle"
  /\ LET targetId == db.withdrawal_requests[r].user_id
     IN procs' = [procs EXCEPT
          ![p].op = "withdraw_confirm", ![p].by = adminId, ![p].arg = targetId,
          ![p].notified = r,
          ![p].pc = IF isAdminId(adminId) THEN "wc_get" ELSE "done",
          ![p].res = IF isAdminId(adminId) THEN "none" ELSE "NotAuthorized"]
  /\ UNCHANGED <<db, locks, now, pendingTasks, hist>>

\* data "withdraw_reject:<userId>": the other button of the same message.
PressWithdrawReject(p, adminId, r) ==
  /\ r \in 1..Len(db.withdrawal_requests)
  /\ procs[p].pc = "idle"
  /\ LET targetId == db.withdrawal_requests[r].user_id
     IN procs' = [procs EXCEPT
          ![p].op = "withdraw_reject", ![p].by = adminId, ![p].arg = targetId,
          ![p].notified = r,
          ![p].pc = IF isAdminId(adminId) THEN "wr_get" ELSE "done",
          ![p].res = IF isAdminId(adminId) THEN "none" ELSE "NotAuthorized"]
  /\ UNCHANGED <<db, locks, now, pendingTasks, hist>>

\* The pending requests of the accounts 1..k, in id order: account u made n[u]
\* requests of the minimum amount through /requestwithdraw, the first at time 0 and
\* the second gap later.
RECURSIVE PendingRequests(_, _, _)
PendingRequests(n, gap, k) ==
  IF k = 0 THEN <<>>
  ELSE LET prev == PendingRequests(n, gap, k - 1)
           req(i, at) == [id |-> i, user_id |-> k, amount |-> DefaultMinWithdrawal,
                          status |-> "pending", requested_at |-> at, reviewed_at |-> 0, reviewed_by |-> 0]
           one == Append(prev, req(Len(prev) + 1, 0))
       IN IF n[k] = 1 THEN one ELSE Append(one, req(Len(prev) + 2, gap))

\* Every account has one or two pending requests, each debited from InitBalance and
\* each with its review message in the review channel.
InitButtons ==
  /\ InitCommon
  /\ \E n \in [Users -> 1..2], gap \in 0..1 :
       db = [users |-> [u \in Users |->
                [NewUser EXCEPT !.wallet = TRUE,
                                !.balance = InitBalance - DefaultMinWithdrawal * n[u]]],
             tasks |-> [t \in TaskIds |-> NoTaskRow],
             task_submissions |-> [s \in SubIds |-> NoSubRow],
             completed_tasks |-> {},
             referrals |-> {},
             bot_settings |-> [InitSettings EXCEPT !["withdrawalOpen"] = SettingOf(1)],
             withdrawal_requests |-> PendingRequests(n, gap, NumUsers),
             user_activity_log |-> {}]

NextButtons ==
  \/ Tick
  \/ \E p \in Procs :
       \/ \E adminId \in Admins \cup Users, r \in 1..(2 * NumUsers) :
            PressWithdrawConfirm(p, adminId, r)
       \/ WithdrawConfirmGet(p)
       \/ WithdrawConfirmUpdate(p)
       \/ \E adminId \in Admins \cup Users, r \in 1..(2 * NumUsers) :
            PressWithdrawReject(p, adminId, r)
       \/ WithdrawRejectGet(p)
       \/ WithdrawRejectUpdate(p)

SpecButtons == InitButtons /\ [][NextButtons]_vars

\* C39: a step of an admin's approve or reject handler, started from the review
\* message of request R, changes the status of no request other than R.
C39_ActsOnNotified ==
  [][\A p \in Procs :
       (procs[p].op \in {"withdraw_confirm", "withdraw_reject"}
          /\ procs'[p].pc = "done" /\ procs'[p].res = "ok") =>
         \A i \in 1..Len(db.withdrawal_requests) :
           db'.withdrawal_requests[i].status # db.withdrawal_requests[i].status
             => i = procs[p].notified
    ]_vars

\* ---------------------------------------------------------------- Elite and the week of absence
\* The account of the call was last seen more than 168 hours before the call's
\* Date.now().
AbsentAWeek(p) == (procs[p].idx - procs[p].usr.last_seen) * HoursPerTick > 168

\* C40: updateEngagementTier never stores Elite for an account last seen more than
\* 168 hours before the call: with every component at its largest (many activities,
\* a long streak, many tasks, every referral real, verified, an old account) the
\* score of such an account is at most 50, below the 70 of Elite.
C40_NoEliteAfterAWeek ==
  /\ [](\A totalActivities \in {0, 1000}, streak \in {0, 100}, taskCount \in {0, 50},
           referralQuality \in {0, 1000}, verified \in BOOLEAN, age \in {0, 200},
           idle \in {15, 200} :
          LET user == [db.users[Scored] EXCEPT !.current_streak = streak, !.verified = verified,
                                          !.registered_at = now - age,
                                          !.last_seen = now - idle]
              tierScore == TierScore(user, now, totalActivities, taskCount, referralQuality)
          IN tierScore <= 50 * ScoreScale /\ TierOf(tierScore) # "Elite")
  /\ [][\A p \in Procs :
          (procs[p].op = "tier" /\ procs[p].pc = "t_update"
             /\ procs'[p].pc = "done" /\ AbsentAWeek(p)) =>
            /\ db'.users[procs[p].arg].engagement_tier = procs[p].ret.tier
            /\ db'.users[procs[p].arg].engagement_tier # "Elite"
            /\ procs[p].ret.tierScore <= 50 * ScoreScale
     ]_vars

\* A call has stored the tier of an account that was last seen 7.5 days before and
\* whose score without the penalty is 70: the halved score 35 made it Regular.
C40_Witness ==
  \E p \in Procs :
    /\ procs[p].op = "tier" /\ procs[p].pc = "done" /\ procs[p].res = "ok"
    /\ AbsentAWeek(p)
    /\ procs[p].ret.tierScore = 35 * ScoreScale
    /\ db.users[procs[p].arg].engagement_tier = "Regular"
    /\ db.users[procs[p].arg].tier_updated_at = procs[p].idx

====
